---- MODULE Spec2Model ----
(***************************************************************************)
(* Verification model of debate-agent-mcp (packages/core).                 *)
(*                                                                         *)
(* Part I  (ExecSpec):  the process executor, tools/run-agent.ts:          *)
(*   runAgent, runAgentOnce, killWithEscalation, isRetryableError,         *)
(*   calculateBackoff, with the Node.js event loop (timers, process        *)
(*   events, promise continuations) as the scheduler.                      *)
(* Part II (Spec):      the round orchestrator, engine/debate360.ts and    *)
(*   engine/plan-debate360.ts: runReviewDebate360, runPlanDebate360.       *)
(* Part III (ValidationSpec): runValidation and parseValidationVotes.      *)
(* Part IV (ConfidenceSpec): engine/confidence.ts, calculateConfidence.    *)
(* Part V  (PlanConsensusSpec): calculatePlanConsensus.                    *)
(* Part VI (ScoreSpec): engine/judge.ts, scoreReviewOutput.                *)
(* Part VII (PlanScoreSpec): engine/plan-judge.ts, scorePlanOutput, and    *)
(*   scorePlanRound.                                                       *)
(* Part VIII (ParseSpec): parseReviewOutput and parsePlanOutput.           *)
(* Part IX (ValiditySpec): isValidReviewOutput of engine/debate360.ts.     *)
(* Part X  (BackoffSpec): calculateBackoff for every retry configuration.  *)
(* Part XI (RequestSpec): validateAgents of config.ts and its callers.     *)
(* Part XII (PlanValidationSpec): runPlanValidation.                       *)
(***************************************************************************)
EXTENDS Integers, Sequences, FiniteSets, TLC

(***************************************************************************)
(* Bounds of the model                                                     *)
(***************************************************************************)
\* largest retryConfig.maxRetries explored
MaxRetriesBound == 1

\* largest number of agents of a run of several rounds
AgentsBound == 2
\* largest number of agents of a run of one round
RoundAgentsBound == 3
\* largest options.maxRounds explored
MaxRoundsBound == 2
\* largest number of findings the composer proposes
FindingsBound == 2
\* largest number of validators of a run
ValidatorsBound == 2
\* largest number of entries of the votes list a validator prints
VotesBound == 2
\* largest number of worker results a confidence is computed from
ReviewAgentsBound == 3
\* largest number of findings of one review
ReviewFindingsBound == 1
\* largest number of findings of one review when two workers are compared
PairFindingsBound == 2
\* largest number of votes of one critique
CritiqueVotesBound == 1
\* largest number of words of a title given to a matcher
TitleWordsBound == 2
\* largest number of findings of a review that is scored
JudgeFindingsBound == 5
\* largest number of entries of a findings or steps list that is parsed
ParseEntriesBound == 1
\* largest number of steps of a composed plan
ComposedStepsBound == 2
\* largest number of agent ids a request lists
RequestAgentsBound == 2
\* largest retryConfig.maxRetries of the retry loop taken alone
BackoffRetriesBound == 4
\* largest number of worker plans a consensus is computed from
PlanAgentsBound == 2
\* largest number of steps of one plan
PlanStepsBound == 1

(***************************************************************************)
(* Program constants                                                       *)
(***************************************************************************)
DEFAULT_MAX_ROUNDS == 3
DEFAULT_CONFIDENCE_THRESHOLD == 80
\* confidence of a single-agent result, buildSingleAgentResult
SINGLE_AGENT_CONFIDENCE == 50
\* options.maxRounds values explored; an absent option selects
\* DEFAULT_MAX_ROUNDS, which is one of the values once MaxRoundsBound >= 3
MaxRoundsOptions == 1..MaxRoundsBound
\* options.confidenceThreshold values explored; 0 is falsy and selects the default
ThresholdOptions == {-1, 0, 100}
\* confidence values a round's scoring can produce
ConfidenceValues == {0, 80, 100}
\* totals of the ScoreBreakdown the judge can give an output
ScoreValues == {10, 20}
\* DEFAULT_RETRY_CONFIG.baseDelayMs
BaseDelayMs == 2000
\* DEFAULT_RETRY_CONFIG.maxDelayMs
MaxDelayMs == 15000
\* grace period of killWithEscalation, setTimeout(..., 5000)
GracePeriodMs == 5000
\* values of Math.random() explored, in thousandths: the two ends of [0, 1)
RandomValues == {0, 999}
\* agentConfig.timeout_seconds values explored: scenario C (2 s) and the default
TimeoutSecondsSet == {2, 180}

\* exit codes a worker process ends with
ExitCodes == {0, 1}
\* child.exitCode === null
NullCode == -1

\* errno codes an 'error' event of the child process carries
ErrnoCodes == {"ENOENT", "EACCES", "EAGAIN", "ECONNRESET", "ECONNREFUSED", "ETIMEDOUT", "EPIPE"}
\* errors an attempt can be rejected with: the timeout built by runAgentOnce,
\* an 'error' event, or an exception thrown synchronously by spawn()
ErrorKinds == {"timeout", "throw"} \cup ErrnoCodes

VARIABLES
    \* ---- process executor (run-agent.ts) ----
    agentConfigured,  \* getAgentConfig(input.agent) finds the agent
    behaviour,        \* "any": the worker may exit or fail; "hang": it never exits by itself
    maxRetries,       \* retryConfig.maxRetries
    timeoutMs,        \* agentConfig.timeout_seconds * 1000
    callPc,           \* position of runAgent: start, once, attempt, sleeping, resolved, rejected
    attempt,          \* loop variable of runAgent
    lastError,        \* lastError of runAgent ("none" = null)
    callError,        \* error the runAgent promise rejected with
    children,         \* one record per runAgentOnce call, in spawn order
    timers,           \* pending setTimeout timers
    now,              \* event-loop clock in ms
    sleeps,           \* backoff delays slept so far
    \* ---- round orchestrator (debate360.ts, plan-debate360.ts) ----
    mode,             \* options.mode: "review" or "plan"
    agents,           \* the agents of the run, in configuration order 1..n
    maxRounds,        \* options.maxRounds || DEFAULT_MAX_ROUNDS
    confidenceThreshold, \* options.confidenceThreshold || DEFAULT_CONFIDENCE_THRESHOLD
    pc,               \* position of the run: init, generating, critiquing, composing, validating, done, failed
    currentRound,     \* currentRound
    confidence,       \* confidence
    genTask,          \* generation tasks of the running Promise.all: agent -> state
    agentOutputs,     \* agentOutputs / planOutputs: participant -> validity of its output
    critTask,         \* critique tasks of the running Promise.all: <<reviewer, target>> -> state
    critiques,        \* the CritiqueResult of every settled critique task: <<reviewer, target>> -> votes
    rounds,           \* rounds: the recorded DebateRound / PlanRound sequence
    finalScores,      \* lastRound.scores once the loop is left: agent -> total
    winner,           \* winner (0 before it is determined)
    composeTask,      \* the composition task: none, running, ok, failed
    valTask,          \* validation tasks: validator -> state
    phases,           \* the phase-start DebateProgress events logged so far
    result,           \* the returned result object (kind "none" before)
    error,            \* the error the run failed with ("none" if not)
    \* ---- validation (runValidation, runPlanValidation) ----
    vpc,              \* position of the validation: idle, voting, done
    composedFindings, \* composedFindings.length / composedSteps.length
    validatorAgents,  \* validators: the agents other than the winner, 1..n
    validatorOutput,  \* what runAgent gave each validator's task (kind "running" before)
    voteResults,      \* voteResults: validator -> the votes its task fulfilled with
    validationResult, \* the returned ValidationResult and the finalFindings built from it
    \* ---- library functions applied to drawn arguments ----
    fn,               \* the function called ("none" if none)
    args,             \* its arguments
    ret               \* its return value (kind "none" before it returns)

execVars == <<agentConfigured, behaviour, maxRetries, timeoutMs, callPc, attempt,
              lastError, callError, children, timers, now, sleeps>>

debateVars == <<mode, agents, maxRounds, confidenceThreshold, pc, currentRound, confidence,
                genTask, agentOutputs, critTask, critiques, rounds, finalScores, winner, composeTask,
                valTask, phases, result, error>>

validationVars == <<vpc, composedFindings, validatorAgents, validatorOutput, voteResults, validationResult>>

callVars == <<fn, args, ret>>

libVars == <<validationVars, callVars>>

vars == <<execVars, debateVars, libVars>>

(***************************************************************************)
(* Error messages and isRetryableError                                     *)
(***************************************************************************)
\* The substrings of interest an error message contains.
\*   timeout:  `Agent ${agent} timed out after ${n} seconds`
\*   event:    `Failed to run agent ${agent}: spawn ${path} ${code}`
\*   throw:    the bare exception of spawn(), none of the keywords
ErrorMessage(kind) ==
    IF kind = "timeout" THEN {"Agent", "timed out"}
    ELSE IF kind = "throw" THEN {"The argument"}
    ELSE {"Failed to run agent", "spawn", kind}

\* String.prototype.toLowerCase on the substrings of interest
ToLowerCase(tok) ==
    CASE tok = "ENOENT" -> "enoent"
      [] tok = "EACCES" -> "eacces"
      [] tok = "EAGAIN" -> "eagain"
      [] tok = "ECONNRESET" -> "econnreset"
      [] tok = "ECONNREFUSED" -> "econnrefused"
      [] tok = "ETIMEDOUT" -> "etimedout"
      [] tok = "EPIPE" -> "epipe"
      [] tok = "Agent" -> "agent"
      [] tok = "Failed to run agent" -> "failed to run agent"
      [] tok = "The argument" -> "the argument"
      [] OTHER -> tok

isRetryableErrorAlwaysRetry(kind) == TRUE

isRetryableError(kind) ==
    LET message == {ToLowerCase(t) : t \in ErrorMessage(kind)} IN
    IF "timed out" \in message THEN TRUE
    ELSE IF "econnreset" \in message THEN TRUE
    ELSE IF "econnrefused" \in message THEN TRUE
    ELSE IF "etimedout" \in message THEN TRUE
    ELSE IF "epipe" \in message THEN TRUE
    ELSE IF "enoent" \in message THEN FALSE
    ELSE IF "eacces" \in message THEN FALSE
    ELSE IF "spawn" \in message THEN FALSE
    ELSE FALSE

(***************************************************************************)
(* calculateBackoff                                                        *)
(***************************************************************************)
Pow2(n) == IF n <= 0 THEN 1 ELSE IF n = 1 THEN 2 ELSE IF n = 2 THEN 4 ELSE IF n = 3 THEN 8 ELSE 16

Min(a, b) == IF a <= b THEN a ELSE b

\* delay = base * 2^attempt; jitter = delay * 0.2 * (random - 0.5), with
\* random = r / 1000; result min(delay + jitter, maxDelayMs), in whole ms
calculateBackoff(att, r) ==
    LET delay == BaseDelayMs * Pow2(att)
        jitter == (delay * (2 * r - 1000)) \div 10000
    IN Min(delay + jitter, MaxDelayMs)

(***************************************************************************)
(* Child processes and timers                                              *)
(***************************************************************************)
\* the ChildProcess object and promise state of one runAgentOnce call
NewChild(spawnResult) ==
    [ pid        |-> (spawnResult = "ok"),        \* child.pid is set
      handle     |-> (spawnResult = "ok"),        \* child._handle: the process is alive
      exitCode   |-> NullCode,                    \* child.exitCode
      signalCode |-> "null",                      \* child.signalCode
      errPending |-> IF spawnResult \in ErrnoCodes THEN spawnResult ELSE "none",
      closed     |-> (spawnResult = "throw"),     \* 'close' has been emitted (or never will)
      isResolved |-> FALSE,
      settle     |-> IF spawnResult = "throw" THEN "rejected" ELSE "pending",
      err        |-> IF spawnResult = "throw" THEN "throw" ELSE "none",
      exit_code  |-> NullCode,                    \* AgentResult.exit_code
      log        |-> << >>,                       \* signals delivered to the process and its exit
      timeoutAt  |-> -1,                          \* when the timeout handler ran (-1: not yet)
      aliveAtTimeout |-> FALSE ]                  \* the process had not exited then

\* outcomes of spawn(): a process, an asynchronous 'error' event, a synchronous throw
SpawnResults == IF behaviour = "hang" THEN {"ok"} ELSE {"ok", "throw"} \cup ErrnoCodes

Timer(kind, child, deadline) == [kind |-> kind, child |-> child, deadline |-> deadline]

\* runAgentOnce up to the return of the promise: spawn and arm the timeout timer
SpawnChild(spawnResult) ==
    /\ children' = Append(children, NewChild(spawnResult))
    /\ timers' = IF spawnResult = "throw" THEN timers
                 ELSE timers \cup {Timer("timeout", Len(children) + 1, now + timeoutMs)}

\* a promise continuation (microtask) of runAgent is ready to run: the awaited
\* runAgentOnce promise has settled
MicrotaskPending ==
    /\ callPc \in {"once", "attempt"}
    /\ children[Len(children)].settle # "pending"

\* process.nextTick work is queued: an 'error' event of a failed spawn
NextTickPending == \E i \in 1..Len(children) : children[i].errPending # "none"

\* a timer is due and no timer with an earlier deadline is pending
TimerDue(t) ==
    /\ t \in timers
    /\ t.deadline <= now
    /\ \A u \in timers : u.deadline >= t.deadline

\* macrotasks (timers, process events) run only when the microtask and
\* nextTick queues are empty
LoopIdle == ~MicrotaskPending /\ ~NextTickPending

\* ChildProcess.prototype.kill: the signal is delivered only while the handle
\* exists; on a child that has exited it returns false and sends nothing
ChildKill(c, sig) ==
    IF c.handle THEN [c EXCEPT !.log = Append(@, [ev |-> sig, at |-> now])] ELSE c

(***************************************************************************)
(* runAgent                                                                *)
(***************************************************************************)
LoopGuardOneMore(att) == att <= maxRetries + 1

\* the loop condition of line 312
LoopGuard(att) == att <= maxRetries

\* the test of line 329: an attempt is left to retry with
HasAttemptsLeft(att) == att < maxRetries

\* the loop of line 312 at its condition, with loop variable att: the next
\* runAgentOnce, or line 337 throws lastError
NextAttempt(att, tm, err) ==
    /\ attempt' = att
    /\ IF LoopGuard(att)
       THEN /\ \E r \in SpawnResults :
                /\ children' = Append(children, NewChild(r))
                /\ timers' = tm \cup (IF r = "throw" THEN {}
                                      ELSE {Timer("timeout", Len(children) + 1, now + timeoutMs)})
            /\ callPc' = "attempt"
            /\ UNCHANGED callError
       ELSE /\ callPc' = "rejected"
            /\ callError' = err
            /\ children' = children
            /\ timers' = tm

\* lines 295-317: look up the configuration, then the first runAgentOnce
RunAgentStart ==
    /\ callPc = "start"
    /\ IF ~agentConfigured
       THEN /\ callPc' = "rejected"
            /\ callError' = "notConfigured"
            /\ UNCHANGED <<children, timers, attempt>>
       ELSE IF maxRetries = 0
       THEN /\ \E r \in SpawnResults : SpawnChild(r)
            /\ callPc' = "once"
            /\ UNCHANGED <<callError, attempt>>
       ELSE NextAttempt(0, timers, "failed after all attempts")
    /\ UNCHANGED <<agentConfigured, behaviour, maxRetries, timeoutMs, lastError, now, sleeps,
                   debateVars, libVars>>

\* line 307: maxRetries === 0, the single attempt decides
OnceSettled ==
    /\ callPc = "once"
    /\ LET c == children[Len(children)] IN
       /\ c.settle # "pending"
       /\ callPc' = c.settle
       /\ callError' = c.err
    /\ UNCHANGED <<agentConfigured, behaviour, maxRetries, timeoutMs, attempt, lastError,
                   children, timers, now, sleeps,
                   debateVars, libVars>>

\* lines 317-337: the awaited attempt settled inside the retry loop
AttemptSettled ==
    /\ callPc = "attempt"
    /\ LET c == children[Len(children)] IN
       /\ c.settle # "pending"
       /\ IF c.settle = "resolved"
          THEN /\ callPc' = "resolved"
               /\ UNCHANGED <<lastError, callError, children, timers, sleeps, attempt>>
          ELSE /\ lastError' = c.err
               /\ IF ~isRetryableError(c.err)
                  THEN /\ callPc' = "rejected"
                       /\ callError' = c.err
                       /\ UNCHANGED <<children, timers, sleeps, attempt>>
                  ELSE IF HasAttemptsLeft(attempt)
                  THEN /\ \E r \in RandomValues :
                            /\ timers' = timers \cup {Timer("sleep", 0, now + calculateBackoff(attempt, r))}
                            /\ sleeps' = Append(sleeps, calculateBackoff(attempt, r))
                       /\ callPc' = "sleeping"
                       /\ UNCHANGED <<callError, children, attempt>>
                  ELSE /\ NextAttempt(attempt + 1, timers, c.err)
                       /\ UNCHANGED sleeps
    /\ UNCHANGED <<agentConfigured, behaviour, maxRetries, timeoutMs, now,
                   debateVars, libVars>>

\* line 332 resumes after the backoff sleep: attempt++ and the loop condition
SleepFire ==
    /\ callPc = "sleeping"
    /\ LoopIdle
    /\ \E t \in timers :
        /\ t.kind = "sleep"
        /\ TimerDue(t)
        /\ NextAttempt(attempt + 1, timers \ {t}, lastError)
    /\ UNCHANGED <<agentConfigured, behaviour, maxRetries, timeoutMs, lastError,
                   now, sleeps,
                   debateVars, libVars>>

(***************************************************************************)
(* runAgentOnce handlers and killWithEscalation                            *)
(***************************************************************************)
killWithEscalationSkipTerm(i, c) ==
    IF c.exitCode # NullCode THEN <<c, {}>>
    ELSE IF ~c.pid THEN <<c, {}>>
    ELSE <<ChildKill(c, "SIGKILL"), {}>>

\* lines 153-179, up to arming the escalation timer: the child after the call
\* and the timers it arms
killWithEscalation(i, c) ==
    IF c.exitCode # NullCode THEN <<c, {}>>
    ELSE IF ~c.pid THEN <<c, {}>>
    ELSE <<ChildKill(c, "SIGTERM"), {Timer("grace", i, now + GracePeriodMs)}>>

\* the timeout handler with the rejection left to the 'close' handler
TimeoutHandlerWaitClose(i, c) ==
    IF ~c.isResolved
    THEN <<[killWithEscalation(i, c)[1] EXCEPT !.timeoutAt = now,
                                               !.aliveAtTimeout = c.handle],
           killWithEscalation(i, c)[2]>>
    ELSE <<c, {}>>

\* lines 218-228: the timeout handler of attempt i
TimeoutHandler(i, c) ==
    IF ~c.isResolved
    THEN <<[killWithEscalation(i, c)[1] EXCEPT !.isResolved = TRUE,
                                               !.settle = "rejected",
                                               !.err = "timeout",
                                               !.timeoutAt = now,
                                               !.aliveAtTimeout = c.handle],
           killWithEscalation(i, c)[2]>>
    ELSE <<c, {}>>

TimeoutFire(i) ==
    /\ LoopIdle
    /\ \E t \in timers :
        /\ t.kind = "timeout" /\ t.child = i
        /\ TimerDue(t)
        /\ children' = [children EXCEPT ![i] = TimeoutHandler(i, children[i])[1]]
        /\ timers' = (timers \ {t}) \cup TimeoutHandler(i, children[i])[2]
    /\ UNCHANGED <<agentConfigured, behaviour, maxRetries, timeoutMs, callPc, attempt,
                   lastError, callError, now, sleeps,
                   debateVars, libVars>>

\* outcomes of process.kill(pid, 0) not throwing: it succeeds while the
\* process lives; once the process has ended it throws, unless the operating
\* system has given the pid to another process
PidProbe(c) == IF c.handle THEN {TRUE} ELSE BOOLEAN

\* lines 168-178: the escalation timer callback, probeOk the outcome of the probe
Escalation(c, probeOk) ==
    IF c.exitCode = NullCode
    THEN IF ~probeOk THEN c ELSE ChildKill(c, "SIGKILL")
    ELSE c

GraceFire(i) ==
    /\ LoopIdle
    /\ \E t \in timers :
        /\ t.kind = "grace" /\ t.child = i
        /\ TimerDue(t)
        /\ \E probeOk \in PidProbe(children[i]) :
                children' = [children EXCEPT ![i] = Escalation(children[i], probeOk)]
        /\ timers' = timers \ {t}
    /\ UNCHANGED <<agentConfigured, behaviour, maxRetries, timeoutMs, callPc, attempt,
                   lastError, callError, now, sleeps,
                   debateVars, libVars>>

\* lines 252-260: the 'error' handler
ChildErrorEvent(i) ==
    /\ ~MicrotaskPending
    /\ i \in 1..Len(children)
    /\ children[i].errPending # "none"
    /\ LET c == children[i] IN
       IF ~c.isResolved
       THEN /\ children' = [children EXCEPT ![i] = [c EXCEPT !.isResolved = TRUE,
                                                              !.settle = "rejected",
                                                              !.err = c.errPending,
                                                              !.errPending = "none"]]
            /\ timers' = {t \in timers : ~(t.kind = "timeout" /\ t.child = i)}
       ELSE /\ children' = [children EXCEPT ![i].errPending = "none"]
            /\ UNCHANGED timers
    /\ UNCHANGED <<agentConfigured, behaviour, maxRetries, timeoutMs, callPc, attempt,
                   lastError, callError, now, sleeps,
                   debateVars, libVars>>

\* the worker process ends: by itself with an exit code (exitCode set), or
\* killed by a signal (exitCode stays null, signalCode set) that
\* killWithEscalation delivered or that came from outside
ChildExit(i) ==
    /\ LoopIdle
    /\ i \in 1..Len(children)
    /\ children[i].handle
    /\ \/ /\ behaviour = "any"
          /\ \E code \in ExitCodes :
                children' = [children EXCEPT ![i].handle = FALSE,
                                             ![i].exitCode = code,
                                             ![i].log = Append(@, [ev |-> "exit"])]
       \/ \E sig \in {children[i].log[k].ev : k \in 1..Len(children[i].log)}
                        \cup (IF behaviour = "any" THEN {"SIGKILL"} ELSE {}) :
                children' = [children EXCEPT ![i].handle = FALSE,
                                             ![i].signalCode = sig,
                                             ![i].log = Append(@, [ev |-> "exit"])]
    /\ UNCHANGED <<agentConfigured, behaviour, maxRetries, timeoutMs, callPc, attempt,
                   lastError, callError, timers, now, sleeps,
                   debateVars, libVars>>

\* the 'close' handler without the isResolved test
ChildCloseUnguarded(i) ==
    /\ LoopIdle
    /\ i \in 1..Len(children)
    /\ LET c == children[i] IN
       /\ ~c.closed /\ ~c.handle /\ c.errPending = "none"
       /\ children' = [children EXCEPT ![i] =
              [c EXCEPT !.closed = TRUE, !.isResolved = TRUE, !.settle = "resolved",
                        !.exit_code = IF c.exitCode = NullCode THEN 0 ELSE c.exitCode]]
       /\ timers' = {t \in timers : ~(t.kind = "timeout" /\ t.child = i)}
    /\ UNCHANGED <<agentConfigured, behaviour, maxRetries, timeoutMs, callPc, attempt,
                   lastError, callError, now, sleeps,
                   debateVars, libVars>>

\* lines 230-250: the 'close' handler, after the process ended or failed to spawn
ChildClose(i) ==
    /\ LoopIdle
    /\ i \in 1..Len(children)
    /\ LET c == children[i] IN
       /\ ~c.closed /\ ~c.handle /\ c.errPending = "none"
       /\ IF ~c.isResolved
          THEN /\ children' = [children EXCEPT ![i] =
                      [c EXCEPT !.closed = TRUE, !.isResolved = TRUE, !.settle = "resolved",
                                !.exit_code = IF c.exitCode = NullCode THEN 0 ELSE c.exitCode]]
               /\ timers' = {t \in timers : ~(t.kind = "timeout" /\ t.child = i)}
          ELSE /\ children' = [children EXCEPT ![i].closed = TRUE]
               /\ UNCHANGED timers
    /\ UNCHANGED <<agentConfigured, behaviour, maxRetries, timeoutMs, callPc, attempt,
                   lastError, callError, now, sleeps,
                   debateVars, libVars>>

\* time passes up to the next timer deadline; only when nothing is runnable
Advance ==
    /\ LoopIdle
    /\ timers # {}
    /\ \A t \in timers : t.deadline > now
    /\ \E t \in timers :
        /\ \A u \in timers : u.deadline >= t.deadline
        /\ now' = t.deadline
    /\ UNCHANGED <<agentConfigured, behaviour, maxRetries, timeoutMs, callPc, attempt,
                   lastError, callError, children, timers, sleeps,
                   debateVars, libVars>>

\* no result has been returned
NoResult == [kind |-> "none"]

\* the orchestrator is not running
DebateIdle ==
    /\ mode = "review" /\ agents = {} /\ maxRounds = 0 /\ confidenceThreshold = 0
    /\ pc = "idle" /\ currentRound = 0 /\ confidence = 0
    /\ genTask = << >> /\ agentOutputs = << >> /\ critTask = << >> /\ critiques = << >> /\ rounds = << >>
    /\ finalScores = << >>
    /\ winner = 0 /\ composeTask = "none" /\ valTask = << >> /\ phases = << >>
    /\ result = NoResult /\ error = "none"

\* no validation is running
ValidationIdle ==
    /\ vpc = "idle" /\ composedFindings = 0 /\ validatorAgents = {}
    /\ validatorOutput = << >> /\ voteResults = << >> /\ validationResult = NoResult

\* no library function is being applied
CallIdle == fn = "none" /\ args = << >> /\ ret = NoResult

LibIdle == ValidationIdle /\ CallIdle

ExecInit ==
    /\ agentConfigured \in BOOLEAN
    /\ behaviour \in {"any", "hang"}
    /\ maxRetries \in 0..MaxRetriesBound
    /\ timeoutMs \in {s * 1000 : s \in TimeoutSecondsSet}
    /\ callPc = "start"
    /\ attempt = 0
    /\ lastError = "none"
    /\ callError = "none"
    /\ children = << >>
    /\ timers = {}
    /\ now = 0
    /\ sleeps = << >>
    /\ DebateIdle
    /\ LibIdle

ExecNext ==
    \/ RunAgentStart
    \/ OnceSettled
    \/ AttemptSettled
    \/ SleepFire
    \/ \E i \in 1..(MaxRetriesBound + 1) : TimeoutFire(i)
    \/ \E i \in 1..(MaxRetriesBound + 1) : GraceFire(i)
    \/ \E i \in 1..(MaxRetriesBound + 1) : ChildErrorEvent(i)
    \/ \E i \in 1..(MaxRetriesBound + 1) : ChildExit(i)
    \/ \E i \in 1..(MaxRetriesBound + 1) : ChildClose(i)
    \/ Advance

ExecSpec == ExecInit /\ [][ExecNext]_vars

(***************************************************************************)
(* Part II: the round orchestrator                                         *)
(***************************************************************************)
\* the agents a run can be configured with, in configuration order
AgentIds == 1..(IF AgentsBound >= RoundAgentsBound THEN AgentsBound ELSE RoundAgentsBound)

\* JavaScript `value || fallback` on numbers: 0 is falsy
OrDefault(value, fallback) == IF value = 0 THEN fallback ELSE value

\* isValidAgentOutput / isValidPlanOutput on the outcome of a generation task:
\*   "valid":   the worker returned a result with content
\*   "invalid": the worker call threw (the output is `Error: ...`), or it
\*              returned a result without content
isValidAgentOutput(o) == o = "valid"

Progress(phase, round) == [phase |-> phase, round |-> round]

critiquePairsWithSelf(outputs) == (DOMAIN outputs) \X (DOMAIN outputs)

\* all ordered pairs of distinct participants, lines 258-267
critiquePairs(outputs) ==
    {p \in (DOMAIN outputs) \X (DOMAIN outputs) : p[1] # p[2]}

AnySettled(tasks) == \E t \in DOMAIN tasks : tasks[t] # "running"

\* Promise.all over tasks that never reject (each mapped function catches its
\* errors): the continuation runs once every task has settled
AllSettled(tasks) == \A t \in DOMAIN tasks : tasks[t] # "running"

determineWinnerFirst(scores) == CHOOSE a \in DOMAIN scores : \A b \in DOMAIN scores : a <= b

\* determineWinner: the first agent, in output order, with the highest total
determineWinner(scores) ==
    CHOOSE a \in DOMAIN scores :
        \A b \in DOMAIN scores :
            \/ scores[b] < scores[a]
            \/ (scores[b] = scores[a] /\ a <= b)

buildSingleAgentResultNoNote(a) ==
    [ kind                |-> "single",
      winner              |-> a,
      rounds              |-> << [ round      |-> 1,
                                   reviews    |-> (a :> "valid"),
                                   critiques  |-> {},
                                   confidence |-> SINGLE_AGENT_CONFIDENCE ] >>,
      finalFindings       |-> [from |-> "review", agent |-> a, round |-> currentRound],
      finalResidualRisks  |-> [from |-> "review", agent |-> a, round |-> currentRound,
                               note |-> "none"],
      confidence          |-> SINGLE_AGENT_CONFIDENCE ]

\* buildSingleAgentResult, lines 392-451: the result built from the output of
\* agent a of the current generation
buildSingleAgentResult(a) ==
    [ kind                |-> "single",
      winner              |-> a,
      rounds              |-> << [ round      |-> 1,
                                   reviews    |-> (a :> "valid"),
                                   critiques  |-> {},
                                   confidence |-> SINGLE_AGENT_CONFIDENCE ] >>,
      finalFindings       |-> [from |-> "review", agent |-> a, round |-> currentRound],
      finalResidualRisks  |-> [from |-> "review", agent |-> a, round |-> currentRound,
                               note |-> "not cross-validated"],
      confidence          |-> SINGLE_AGENT_CONFIDENCE ]

\* the run fails with an error
Fail(e) ==
    /\ pc' = "failed"
    /\ error' = e

\* the loop condition, line 565 / 748
LoopCondition(conf, round) == conf < confidenceThreshold /\ round <= maxRounds

NeedAnotherRoundIgnoreMax(conf, round) == conf < confidenceThreshold

NeedAnotherRoundOr(conf, round) == conf < confidenceThreshold \/ round < maxRounds

\* the decision after a round is stored, line 616 / 801
NeedAnotherRound(conf, round) == conf < confidenceThreshold /\ round < maxRounds

\* runReviewDebate360 lines 456-530 and runPlanDebate360 lines 670-732
StartDebate ==
    /\ pc = "init"
    /\ IF mode = "review"
       THEN IF agents = {}
            THEN /\ Fail("No healthy agents available")
                 /\ UNCHANGED <<genTask, phases, currentRound>>
            ELSE \E diffFound \in BOOLEAN :
                    IF ~diffFound
                    THEN /\ Fail("No uncommitted changes found")
                         /\ phases' = Append(phases, Progress("initializing", 0))
                         /\ UNCHANGED <<genTask, currentRound>>
                    ELSE /\ currentRound' = 1
                         /\ genTask' = [a \in agents |-> "running"]
                         /\ phases' = phases \o <<Progress("initializing", 0),
                                                  Progress("parallel_review", 1)>>
                         /\ pc' = "generating"
                         /\ UNCHANGED error
       ELSE IF Cardinality(agents) < 2
            THEN /\ Fail("At least 2 agents are required")
                 /\ UNCHANGED <<genTask, phases, currentRound>>
            ELSE /\ currentRound' = 1
                 /\ genTask' = [a \in agents |-> "running"]
                 /\ phases' = phases \o <<Progress("initializing", 0),
                                          Progress("parallel_review", 1)>>
                 /\ pc' = "generating"
                 /\ UNCHANGED error
    /\ UNCHANGED <<mode, agents, maxRounds, confidenceThreshold, confidence, agentOutputs,
                   critTask, critiques, rounds, finalScores, winner, composeTask, valTask, result, execVars, libVars>>

\* a generation task settles; the try/catch of the mapped function turns a
\* failure into a fulfilled `Error:` output (lines 132-165)
GenSettle(a) ==
    /\ pc = "generating"
    /\ a \in DOMAIN genTask
    /\ genTask[a] = "running"
    /\ \E o \in {"valid", "invalid"} : genTask' = [genTask EXCEPT ![a] = o]
    /\ UNCHANGED <<mode, agents, maxRounds, confidenceThreshold, pc, currentRound, confidence,
                   agentOutputs, critTask, critiques, rounds, finalScores, winner, composeTask, valTask, phases,
                   result, error, execVars, libVars>>

\* the winner of the last recorded round and the composition task issued
\* to it (lines 659-679 / 826-846); ph is the progress log so far
StartComposing(ph, sc) ==
    /\ finalScores' = sc
    /\ winner' = determineWinner(sc)
    /\ composeTask' = "running"
    /\ phases' = Append(ph, Progress("composing", currentRound))
    /\ pc' = "composing"

\* the while condition of line 565 / 748 with the new outputs: run360Critique
\* up to its Promise.all, or the loop is left.  Before the first round
\* rounds is empty and `lastRound.scores` (line 663 / 830) throws a
\* TypeError.  After a regeneration the condition holds whenever the decision
\* of line 616 / 801 held.
EnterLoop(outputs) ==
    IF LoopCondition(confidence, currentRound)
    THEN /\ critTask' = [p \in critiquePairs(outputs) |-> "running"]
         /\ critiques' = << >>
         /\ phases' = Append(phases, Progress("360_critique", currentRound))
         /\ pc' = "critiquing"
         /\ UNCHANGED <<error, finalScores, winner, composeTask>>
    ELSE IF rounds = << >>
    THEN /\ Fail("TypeError: lastRound is undefined")
         /\ UNCHANGED <<critTask, critiques, phases, finalScores, winner, composeTask>>
    ELSE /\ \E sc \in [DOMAIN rounds[Len(rounds)].reviews -> ScoreValues] :
                StartComposing(phases, sc)
         /\ UNCHANGED <<critTask, critiques, error>>

reviewDecisionNoFail(n, first) ==
    IF n = 1 THEN "single" ELSE "debate"

reviewDecisionFirstOnly(n, first) ==
    IF n = 0 THEN "fail"
    ELSE IF n = 1 /\ first THEN "single"
    ELSE "debate"

\* review mode, the checks on the number n of valid outputs of a generation:
\* lines 541-558 for the first generation, lines 633-652 for a regeneration
reviewDecision(n, first) ==
    IF n = 0 THEN "fail"
    ELSE IF n = 1 THEN "single"
    ELSE "debate"

\* plan mode: line 736 for the first generation; a regeneration only warns
\* (lines 817-820)
planDecision(n, first) ==
    IF first /\ n < 2 THEN "fail" ELSE "debate"

\* the continuation of the generation Promise.all:
\* review, first generation: lines 532-565; review, regeneration: lines 631-657;
\* plan, first generation: lines 734-748; plan, regeneration: lines 816-824
GenerationDone ==
    /\ pc = "generating"
    /\ AllSettled(genTask)
    /\ LET newWorkingAgents == {a \in DOMAIN genTask : isValidAgentOutput(genTask[a])}
           working == [a \in newWorkingAgents |-> genTask[a]]
           n == Cardinality(newWorkingAgents)
           first == (rounds = << >>)
       IN
       IF mode = "review"
       THEN CASE reviewDecision(n, first) = "fail" ->
                    /\ Fail(IF first THEN "No agents produced valid output"
                                     ELSE "All agents failed in round")
                    /\ UNCHANGED <<agentOutputs, critTask, critiques, phases, result, finalScores,
                                   winner, composeTask>>
              [] reviewDecision(n, first) = "single" ->
                    /\ result' = buildSingleAgentResult(CHOOSE a \in newWorkingAgents : TRUE)
                    /\ pc' = "done"
                    /\ UNCHANGED <<agentOutputs, critTask, critiques, phases, error, finalScores,
                                   winner, composeTask>>
              [] OTHER ->
                    /\ agentOutputs' = working
                    /\ EnterLoop(working)
                    /\ UNCHANGED result
       ELSE CASE planDecision(n, first) = "fail" ->
                    /\ Fail("360 plan debate requires at least 2 working agents")
                    /\ UNCHANGED <<agentOutputs, critTask, critiques, phases, result, finalScores,
                                   winner, composeTask>>
              [] OTHER ->
                    /\ agentOutputs' = genTask
                    /\ EnterLoop(genTask)
                    /\ UNCHANGED result
    /\ genTask' = << >>
    /\ UNCHANGED <<mode, agents, maxRounds, confidenceThreshold, currentRound, confidence,
                   rounds, valTask, execVars, libVars>>

\* the outcomes of a critique task (lines 271-314 / 247-285): "ok", the
\* reviewer answered and its output was parsed; "failed", runAgent threw and
\* the catch block returned the result, or the output held no JSON object or
\* malformed JSON and parseCritiqueVotes / parsePlanCritiqueVotes gave up
CritiqueOutcomes == {"ok", "failed"}

critiqueVotesKeepVotes(o) == "parsed"

\* the vote list of the CritiqueResult a settled task returned: the votes
\* parsed from the output, or [] (lines 303-308, 182, 219-222)
critiqueVotes(o) == IF o = "failed" THEN "empty" ELSE "parsed"

\* a critique task settles; the promise of the mapped function is fulfilled
\* in both outcomes
CritSettle(p) ==
    /\ pc = "critiquing"
    /\ p \in DOMAIN critTask
    /\ critTask[p] = "running"
    /\ \E o \in CritiqueOutcomes :
        /\ critTask' = [critTask EXCEPT ![p] = o]
        /\ critiques' = (p :> critiqueVotes(o)) @@ critiques
    /\ UNCHANGED <<mode, agents, maxRounds, confidenceThreshold, pc, currentRound, confidence,
                   genTask, agentOutputs, rounds, finalScores, winner, composeTask, valTask, phases,
                   result, error, execVars, libVars>>

\* the round record pushed at line 606 / 791; the scores of a record are read
\* again only for the last round (line 663 / 830) and are kept in finalScores
RoundRecord(conf, sc) ==
    [ round      |-> currentRound,
      reviews    |-> agentOutputs,
      critiques  |-> DOMAIN critiques,
      scored     |-> DOMAIN sc,
      confidence |-> conf ]

\* the continuation of the critique Promise.all: scoring, confidence, the
\* round record and the loop decision (lines 576-657 / 759-824); on leaving
\* the loop, the winner and the composition task (lines 659-679 / 826-846)
ScoreAndDecide ==
    /\ pc = "critiquing"
    /\ AllSettled(critTask)
    /\ \E conf \in ConfidenceValues, sc \in [DOMAIN agentOutputs -> ScoreValues] :
        /\ confidence' = conf
        /\ rounds' = Append(rounds, RoundRecord(conf, sc))
        /\ critTask' = << >>
        /\ critiques' = << >>
        /\ IF NeedAnotherRound(conf, currentRound)
           THEN /\ currentRound' = currentRound + 1
                /\ genTask' = [a \in agents |-> "running"]
                /\ phases' = phases \o <<Progress("scoring", currentRound),
                                         Progress("parallel_review", currentRound + 1)>>
                /\ pc' = "generating"
                /\ UNCHANGED <<winner, composeTask, finalScores>>
           ELSE /\ StartComposing(Append(phases, Progress("scoring", currentRound)), sc)
                /\ UNCHANGED <<currentRound, genTask>>
    /\ UNCHANGED <<mode, agents, maxRounds, confidenceThreshold, agentOutputs,
                   valTask, result, error, execVars, libVars>>

\* the final result of a full run, lines 703-753 / 870-906
FinalResult(validation) ==
    [ kind                |-> "debate",
      winner              |-> winner,
      rounds              |-> rounds,
      finalFindings       |-> [from |-> "validation", agent |-> winner, round |-> currentRound],
      finalResidualRisks  |-> [from |-> "composed", agent |-> winner, round |-> currentRound,
                               note |-> "none"],
      confidence          |-> confidence ]

\* the composition task settles (runWinnerComposition / runPlanComposition);
\* its failure is not caught and fails the run; on success the validation
\* tasks are issued to every agent but the winner (lines 681-701 / 848-868)
ComposeSettle ==
    /\ pc = "composing"
    /\ composeTask = "running"
    /\ \E o \in {"ok", "failed"} :
        /\ composeTask' = o
        /\ IF o = "failed"
           THEN /\ Fail("composition failed")
                /\ UNCHANGED <<valTask, phases, result>>
           ELSE LET validators == agents \ {winner} IN
                /\ valTask' = [v \in validators |-> "running"]
                /\ phases' = IF validators # {}
                             THEN Append(phases, Progress("validating", currentRound))
                             ELSE phases
                /\ pc' = "validating"
                /\ UNCHANGED <<error, result>>
    /\ UNCHANGED <<mode, agents, maxRounds, confidenceThreshold, currentRound, confidence,
                   genTask, agentOutputs, critTask, critiques, rounds, finalScores, winner, execVars, libVars>>

\* a validation task settles; a failure is caught and becomes default
\* approval (validator.ts runValidation / runPlanValidation)
ValSettle(v) ==
    /\ pc = "validating"
    /\ v \in DOMAIN valTask
    /\ valTask[v] = "running"
    /\ \E o \in {"ok", "failed"} : valTask' = [valTask EXCEPT ![v] = o]
    /\ UNCHANGED <<mode, agents, maxRounds, confidenceThreshold, pc, currentRound, confidence,
                   genTask, agentOutputs, critTask, critiques, rounds, finalScores, winner, composeTask, phases,
                   result, error, execVars, libVars>>

\* the continuation of the validation Promise.all: the result is compiled,
\* the report written and the result returned
ValidationDone ==
    /\ pc = "validating"
    /\ AllSettled(valTask)
    /\ result' = FinalResult(valTask)
    /\ phases' = Append(phases, Progress("writing_report", currentRound))
    /\ pc' = "done"
    /\ UNCHANGED <<mode, agents, maxRounds, confidenceThreshold, currentRound, confidence,
                   genTask, agentOutputs, critTask, critiques, rounds, finalScores, winner, composeTask, valTask,
                   error, execVars, libVars>>

\* the executor is not running
ExecIdle ==
    /\ agentConfigured = TRUE /\ behaviour = "any" /\ maxRetries = 0 /\ timeoutMs = 0
    /\ callPc = "idle" /\ attempt = 0 /\ lastError = "none" /\ callError = "none"
    /\ children = << >> /\ timers = {} /\ now = 0 /\ sleeps = << >>

Init ==
    /\ mode \in {"review", "plan"}
    /\ \E n \in 0..AgentsBound : agents = 1..n
    /\ \E o \in MaxRoundsOptions : maxRounds = OrDefault(o, DEFAULT_MAX_ROUNDS)
    /\ \E o \in ThresholdOptions : confidenceThreshold = OrDefault(o, DEFAULT_CONFIDENCE_THRESHOLD)
    /\ pc = "init"
    /\ currentRound = 0
    /\ confidence = 0
    /\ genTask = << >>
    /\ agentOutputs = << >>
    /\ critTask = << >>
    /\ critiques = << >>
    /\ rounds = << >>
    /\ finalScores = << >>
    /\ winner = 0
    /\ composeTask = "none"
    /\ valTask = << >>
    /\ phases = << >>
    /\ result = NoResult
    /\ error = "none"
    /\ ExecIdle
    /\ LibIdle

Next ==
    \/ StartDebate
    \/ \E a \in AgentIds : GenSettle(a)
    \/ GenerationDone
    \/ \E p \in AgentIds \X AgentIds : CritSettle(p)
    \/ ScoreAndDecide
    \/ ComposeSettle
    \/ \E v \in AgentIds : ValSettle(v)
    \/ ValidationDone

Spec == Init /\ [][Next]_vars

\* a run of a single round (maxRounds 1, the default threshold) with up to
\* RoundAgentsBound agents
RoundInit ==
    /\ mode \in {"review", "plan"}
    /\ \E n \in 2..RoundAgentsBound : agents = 1..n
    /\ maxRounds = OrDefault(1, DEFAULT_MAX_ROUNDS)
    /\ confidenceThreshold = OrDefault(0, DEFAULT_CONFIDENCE_THRESHOLD)
    /\ pc = "init"
    /\ currentRound = 0
    /\ confidence = 0
    /\ genTask = << >>
    /\ agentOutputs = << >>
    /\ critTask = << >>
    /\ critiques = << >>
    /\ rounds = << >>
    /\ finalScores = << >>
    /\ winner = 0
    /\ composeTask = "none"
    /\ valTask = << >>
    /\ phases = << >>
    /\ result = NoResult
    /\ error = "none"
    /\ ExecIdle
    /\ LibIdle

RoundSpec == RoundInit /\ [][Next]_vars

\* the scheduling of the Node.js event loop: a runnable continuation runs, a
\* due timer fires and time passes; nothing is assumed of the worker process
\* (ChildExit, ChildClose)
ExecFairness ==
    /\ WF_vars(RunAgentStart)
    /\ WF_vars(OnceSettled)
    /\ WF_vars(AttemptSettled)
    /\ WF_vars(SleepFire)
    /\ \A i \in 1..(MaxRetriesBound + 1) : WF_vars(TimeoutFire(i))
    /\ \A i \in 1..(MaxRetriesBound + 1) : WF_vars(GraceFire(i))
    /\ WF_vars(Advance)

\* runAgent on a worker whose process starts and never exits by itself
HangInit == ExecInit /\ behaviour = "hang"

\* the steps of such a call: spawn() emits no 'error' event
HangNext ==
    \/ RunAgentStart
    \/ OnceSettled
    \/ AttemptSettled
    \/ SleepFire
    \/ \E i \in 1..(MaxRetriesBound + 1) : TimeoutFire(i)
    \/ \E i \in 1..(MaxRetriesBound + 1) : GraceFire(i)
    \/ \E i \in 1..(MaxRetriesBound + 1) : ChildExit(i)
    \/ \E i \in 1..(MaxRetriesBound + 1) : ChildClose(i)
    \/ Advance

ExecLiveSpec == HangInit /\ [][HangNext]_vars /\ ExecFairness

(***************************************************************************)
(* Part III: validation of the composed result (runValidation)             *)
(***************************************************************************)

\* the vote values a validator's JSON can carry; anything but "reject" is
\* read as an approval
RawVoteValues == {"approve", "reject", "abstain"}

\* an entry of parsed.votes whose properties cannot be read (null)
NullEntry == [id |-> -1, vote |-> "null"]

\* the entries of parsed.votes for n proposed findings; id is the number the
\* pattern finding_(\d+) extracts, -1 when the id does not match, n when it
\* is out of range
RawEntries(n) == [id : -1..n, vote : RawVoteValues] \cup {NullEntry}

SeqsUpTo(S, k) == UNION {[1..m -> S] : m \in 0..k}

\* what a validator can print: no JSON object at all, text JSON.parse
\* rejects, or an object with a votes list
ValidatorOutputs(n) ==
    {[kind |-> "nojson", votes |-> << >>], [kind |-> "malformed", votes |-> << >>]}
    \cup {[kind |-> "json", votes |-> q] : q \in SeqsUpTo(RawEntries(n), VotesBound)}

\* how runAgent settles for a validator: it throws, or resolves with output
RunAgentOutcomes(n) == {[kind |-> "throws", votes |-> << >>]} \cup ValidatorOutputs(n)

ParseFailedReason == "Default approval (parsing failed)"
ValidatorErrorReason == "Default approval (validator error)"

\* one approve vote per proposed finding, findingId finding_0 .. finding_(n-1)
DefaultApprovals(agent, n, reason) ==
    [i \in 1..n |-> [findingId |-> i - 1, agent |-> agent, vote |-> "approve",
                     reason |-> reason]]

\* the for loop of parseValidationVotes over parsed.votes: the votes pushed
\* and whether the loop threw
RECURSIVE parseLoop(_, _, _)
parseLoop(entries, agent, n) ==
    IF entries = << >> THEN [votes |-> << >>, threw |-> FALSE]
    ELSE LET v == Head(entries) IN
         IF v = NullEntry THEN [votes |-> << >>, threw |-> TRUE]
         ELSE LET rest == parseLoop(Tail(entries), agent, n)
                  pushed == IF v.id >= 0 /\ v.id < n
                            THEN <<[findingId |-> v.id, agent |-> agent,
                                    vote |-> IF v.vote = "reject" THEN "reject" ELSE "approve",
                                    reason |-> "given"]>>
                            ELSE << >>
              IN [votes |-> pushed \o rest.votes, threw |-> rest.threw]

parseValidationVotes(output, agent, n) ==
    IF output.kind = "nojson" THEN << >>
    ELSE IF output.kind = "malformed" THEN DefaultApprovals(agent, n, ParseFailedReason)
    ELSE LET r == parseLoop(output.votes, agent, n)
         IN IF r.threw THEN r.votes \o DefaultApprovals(agent, n, ParseFailedReason)
                       ELSE r.votes

validatorTaskNoDefault(outcome, agent, n) ==
    IF outcome.kind = "throws" THEN << >> ELSE parseValidationVotes(outcome, agent, n)

\* the task runValidation maps every validator to
validatorTask(outcome, agent, n) ==
    IF outcome.kind = "throws"
    THEN DefaultApprovals(agent, n, ValidatorErrorReason)
    ELSE parseValidationVotes(outcome, agent, n)

\* allVotes: the vote lists of the validators 1..k, in that order
RECURSIVE allVotesOf(_, _)
allVotesOf(results, k) ==
    IF k = 0 THEN << >> ELSE allVotesOf(results, k - 1) \o results[k]

\* findingVotes: the tally of every proposed finding
findingVotes(allVotes, n) ==
    [i \in 0..(n - 1) |->
        [approves |-> Cardinality({j \in 1..Len(allVotes) :
                          allVotes[j].findingId = i /\ allVotes[j].vote = "approve"}),
         rejects  |-> Cardinality({j \in 1..Len(allVotes) :
                          allVotes[j].findingId = i /\ allVotes[j].vote # "approve"})]]

\* the proposed findings, by position
FindingList(n) == [i \in 1..n |-> i - 1]

categorizeStrict(allVotes, n) ==
    LET tally == findingVotes(allVotes, n)
        isApproved(i) == tally[i].approves > tally[i].rejects
        isTie(i) == tally[i].approves = tally[i].rejects /\ tally[i].approves > 0
    IN [votes |-> allVotes,
        approvedFindings |-> SelectSeq(FindingList(n), isApproved),
        rejectedFindings |-> SelectSeq(FindingList(n), LAMBDA i : ~isApproved(i)),
        tieFindings |-> SelectSeq(FindingList(n), isTie)]

\* the categorisation loop of runValidation and the object it returns
categorize(allVotes, n) ==
    LET tally == findingVotes(allVotes, n)
        isApproved(i) == tally[i].approves >= tally[i].rejects
        isTie(i) == isApproved(i) /\ tally[i].approves = tally[i].rejects
                    /\ tally[i].approves > 0
    IN [votes |-> allVotes,
        approvedFindings |-> SelectSeq(FindingList(n), isApproved),
        rejectedFindings |-> SelectSeq(FindingList(n), LAMBDA i : ~isApproved(i)),
        tieFindings |-> SelectSeq(FindingList(n), isTie)]

RunningOutput == [kind |-> "running", votes |-> << >>]

\* runValidation is called with the composed findings and the validators
ValidationInit ==
    /\ vpc = "voting"
    /\ composedFindings \in 0..FindingsBound
    /\ \E k \in 0..ValidatorsBound : validatorAgents = 1..k
    /\ validatorOutput = [v \in validatorAgents |-> RunningOutput]
    /\ voteResults = << >>
    /\ validationResult = NoResult
    /\ CallIdle
    /\ DebateIdle
    /\ ExecIdle

\* the task of validator v settles: runAgent threw or resolved with output
ValidatorSettle(v) ==
    /\ vpc = "voting"
    /\ v \in validatorAgents
    /\ validatorOutput[v] = RunningOutput
    /\ \E o \in RunAgentOutcomes(composedFindings) :
         /\ validatorOutput' = [validatorOutput EXCEPT ![v] = o]
         /\ voteResults' = (v :> validatorTask(o, v, composedFindings)) @@ voteResults
    /\ UNCHANGED <<vpc, composedFindings, validatorAgents, validationResult, callVars,
                   execVars, debateVars>>

\* Promise.all fulfilled: the votes are tallied, the findings categorised and
\* the final findings taken from the approved ones
TallyVotes ==
    /\ vpc = "voting"
    /\ DOMAIN voteResults = validatorAgents
    /\ LET val == categorize(allVotesOf(voteResults, Cardinality(validatorAgents)),
                             composedFindings)
       IN validationResult' = [kind |-> "result", validation |-> val,
                               finalFindings |-> val.approvedFindings]
    /\ vpc' = "done"
    /\ UNCHANGED <<composedFindings, validatorAgents, validatorOutput, voteResults, callVars,
                   execVars, debateVars>>

ValidationNext ==
    \/ \E v \in 1..ValidatorsBound : ValidatorSettle(v)
    \/ TallyVotes

ValidationSpec == ValidationInit /\ [][ValidationNext]_vars

(***************************************************************************)
(* Part IV: confidence scoring (confidence.ts)                             *)
(***************************************************************************)

\* Findings are records [severity, title, file]. A title is the sequence of
\* its words and no title is longer than twenty characters; a file is a
\* path, possibly followed by a line number ("" when the finding has none).
\* The findings of FindingUniverse have lower-case titles without
\* punctuation or short words and files without line numbers; RawFindings
\* has titles and files as workers write them.
FindingTitles == {<<"null">>, <<"null", "deref">>}
Files == {"", "a.ts"}
FindingUniverse ==
    [severity : {"P0"}, title : FindingTitles, file : Files]
    \cup {[severity |-> "P1", title |-> <<"null">>, file |-> "a.ts"]}

\* the titles and values of critique votes
VoteTitles == {<<"deref">>}
VoteValues == {"agree", "disagree"}

Range(q) == {q[j] : j \in 1..Len(q)}

\* Math.round of the non-negative fraction p / q
Round(p, q) == (2 * p + q) \div (2 * q)

\* the words workers write, and what toLowerCase().replace(/[^\w\s]/g, "")
\* makes of a word
RawWords == {"Null", "null", "deref!", "in"}
NormWord(w) == CASE w = "Null" -> "null" [] w = "deref!" -> "deref" [] OTHER -> w

\* the words of three characters or less, dropped by filter(w => w.length > 3)
ShortWords == {"in"}

\* title.toLowerCase().replace(/[^\w\s]/g, "").trim()
normalizeTitle(title) == [j \in 1..Len(title) |-> NormWord(title[j])]

\* new Set(title.split(/\s+/).filter(w => w.length > 3))
titleWords(title) == Range(normalizeTitle(title)) \ ShortWords

\* file.split(":")[0]
RawFiles == {"", "a.ts:10", "a.ts:20", "A.ts"}
fileBase(file) == CASE file = "a.ts:10" -> "a.ts" [] file = "a.ts:20" -> "a.ts" [] OTHER -> file
lowerFile(file) == IF file = "A.ts" THEN "a.ts" ELSE file

RawSeverities == {"P0", "P1"}
RawTitles == SeqsUpTo(RawWords, TitleWordsBound)
RawFindings == [severity : RawSeverities, title : RawTitles, file : RawFiles]

createFindingSignature(f) == <<f.severity, normalizeTitle(f.title), lowerFile(fileBase(f.file))>>

findingsMatchContainment(a, b) ==
    IF a.severity # b.severity THEN FALSE
    ELSE IF normalizeTitle(a.title) = normalizeTitle(b.title) THEN TRUE
    ELSE LET wordsA == titleWords(a.title)
             wordsB == titleWords(b.title)
             inter == Cardinality(wordsA \cap wordsB)
         IN IF wordsA = {} \/ wordsB = {} THEN FALSE
            ELSE 2 * inter > Cardinality(wordsA)

findingsMatch(a, b) ==
    IF a.severity # b.severity THEN FALSE
    ELSE IF normalizeTitle(a.title) = normalizeTitle(b.title) THEN TRUE
    ELSE LET wordsA == titleWords(a.title)
             wordsB == titleWords(b.title)
             inter == Cardinality(wordsA \cap wordsB)
             union == Cardinality(wordsA \cup wordsB)
         IN IF wordsA = {} \/ wordsB = {} THEN FALSE
            ELSE IF 2 * inter > union THEN TRUE
            ELSE /\ a.file # "" /\ b.file # ""
                 /\ fileBase(a.file) = fileBase(b.file)
                 /\ 10 * inter > 3 * union

\* Steps are records [phase, title]
RawPhases == {1, 2}
RawSteps == [phase : RawPhases, title : RawTitles]

stepsMatchContainment(a, b) ==
    IF a.phase # b.phase THEN FALSE
    ELSE IF normalizeTitle(a.title) = normalizeTitle(b.title) THEN TRUE
    ELSE LET wordsA == titleWords(a.title)
             wordsB == titleWords(b.title)
             inter == Cardinality(wordsA \cap wordsB)
         IN IF wordsA = {} \/ wordsB = {} THEN FALSE
            ELSE 2 * inter > Cardinality(wordsA)

stepsMatch(a, b) ==
    IF a.phase # b.phase THEN FALSE
    ELSE IF normalizeTitle(a.title) = normalizeTitle(b.title) THEN TRUE
    ELSE LET wordsA == titleWords(a.title)
             wordsB == titleWords(b.title)
             inter == Cardinality(wordsA \cap wordsB)
             union == Cardinality(wordsA \cup wordsB)
         IN IF wordsA = {} \/ wordsB = {} THEN FALSE
            ELSE 2 * inter > union

\* the matchers are called on two findings or two steps, in both orders
MatchInit ==
    /\ \/ fn = "findingsMatch" /\ args \in [a : RawFindings, b : RawFindings]
       \/ fn = "stepsMatch" /\ args \in [a : RawSteps, b : RawSteps]
    /\ ret = NoResult
    /\ ValidationIdle
    /\ DebateIdle
    /\ ExecIdle

FindingsMatch ==
    /\ fn = "findingsMatch"
    /\ ret = NoResult
    /\ ret' = [kind |-> "value", ab |-> findingsMatch(args.a, args.b),
               ba |-> findingsMatch(args.b, args.a)]
    /\ UNCHANGED <<fn, args, validationVars, execVars, debateVars>>

StepsMatch ==
    /\ fn = "stepsMatch"
    /\ ret = NoResult
    /\ ret' = [kind |-> "value", ab |-> stepsMatch(args.a, args.b),
               ba |-> stepsMatch(args.b, args.a)]
    /\ UNCHANGED <<fn, args, validationVars, execVars, debateVars>>

MatchNext == FindingsMatch \/ StepsMatch

MatchSpec == MatchInit /\ [][MatchNext]_vars

\* every finding of every output, in order, as <<finding, source>>
RECURSIVE flattenFindings(_)
flattenFindings(outputs) ==
    IF outputs = << >> THEN << >>
    ELSE [j \in 1..Len(Head(outputs).findings) |->
             [finding |-> Head(outputs).findings[j], source |-> Head(outputs).agent]]
         \o flattenFindings(Tail(outputs))

collectFromKeepAll(all, entries) == all \o entries

RECURSIVE collectFromSignatureOnly(_, _)
collectFromSignatureOnly(all, entries) ==
    IF entries = << >> THEN all
    ELSE LET e == Head(entries)
             seen == \E j \in 1..Len(all) :
                        createFindingSignature(all[j].finding) = createFindingSignature(e.finding)
         IN collectFromSignatureOnly(IF ~seen THEN Append(all, e) ELSE all, Tail(entries))

RECURSIVE collectFrom(_, _)
collectFrom(all, entries) ==
    IF entries = << >> THEN all
    ELSE LET e == Head(entries)
             isDuplicate == \E j \in 1..Len(all) : findingsMatch(e.finding, all[j].finding)
             seen == \E j \in 1..Len(all) :
                        createFindingSignature(all[j].finding) = createFindingSignature(e.finding)
         IN collectFrom(IF ~isDuplicate /\ ~seen THEN Append(all, e) ELSE all, Tail(entries))

collectAllFindings(outputs) == collectFrom(<< >>, flattenFindings(outputs))

\* a.includes(b): b is a run of consecutive words of a
TitleIncludes(a, b) ==
    \E s \in 0..Len(a) :
        /\ s + Len(b) <= Len(a)
        /\ \A j \in 1..Len(b) : a[s + j] = b[j]

\* the verdict of countAgreements on one agent: the list it is pushed to
agentVerdict(agent, finding, outputs, crits) ==
    LET agentOutput == outputs[CHOOSE j \in 1..Len(outputs) :
                           /\ outputs[j].agent = agent
                           /\ \A k \in 1..(j - 1) : outputs[k].agent # agent]
        foundSimilar == \E j \in 1..Len(agentOutput.findings) :
                           findingsMatch(agentOutput.findings[j], finding)
        matching == {vote \in UNION {Range(crits[p]) :
                                        p \in {q \in DOMAIN crits : q[1] = agent}} :
                        \/ TitleIncludes(vote.findingTitle, finding.title)
                        \/ TitleIncludes(finding.title, vote.findingTitle)}
        votedAgree == \E vote \in matching : vote.vote = "agree"
        votedDisagree == \E vote \in matching : vote.vote = "disagree"
    IN IF foundSimilar THEN "agrees"
       ELSE IF votedAgree /\ ~votedDisagree THEN "agrees"
       ELSE IF votedDisagree /\ ~votedAgree THEN "disagrees"
       ELSE "abstains"

\* the agents of the outputs in the order of the Set allAgents
RECURSIVE allAgentsOf(_)
allAgentsOf(outputs) ==
    IF outputs = << >> THEN << >>
    ELSE LET front == allAgentsOf(SubSeq(outputs, 1, Len(outputs) - 1))
             last == outputs[Len(outputs)].agent
         IN IF last \in Range(front) THEN front ELSE Append(front, last)

countAgreementsVotesFirst(finding, outputs, crits) ==
    LET agentList == allAgentsOf(outputs)
        voted(a) == \E p \in DOMAIN crits :
                       /\ p[1] = a
                       /\ \E j \in 1..Len(crits[p]) : crits[p][j].vote = "agree"
    IN [agrees |-> SelectSeq(agentList, voted),
        disagrees |-> << >>,
        abstains |-> SelectSeq(agentList, LAMBDA a : ~voted(a))]

countAgreements(finding, outputs, crits) ==
    LET agentList == allAgentsOf(outputs)
        verdict(a) == agentVerdict(a, finding, outputs, crits)
    IN [agrees |-> SelectSeq(agentList, LAMBDA a : verdict(a) = "agrees"),
        disagrees |-> SelectSeq(agentList, LAMBDA a : verdict(a) = "disagrees"),
        abstains |-> SelectSeq(agentList, LAMBDA a : verdict(a) = "abstains")]

\* the agents countAgreements puts in agrees
agrees(finding, outputs, crits) == Range(countAgreements(finding, outputs, crits).agrees)

pairAgreementUncapped(findingsA, findingsB) ==
    IF findingsA = << >> /\ findingsB = << >> THEN 100
    ELSE LET matchingFindings == Cardinality({j \in 1..Len(findingsA) :
                                    \E k \in 1..Len(findingsB) :
                                        findingsMatch(findingsA[j], findingsB[k])})
             totalUniqueFindings == {createFindingSignature(f) :
                                        f \in Range(findingsA) \cup Range(findingsB)}
         IN Round(matchingFindings * 2 * 100, Cardinality(totalUniqueFindings))

pairAgreementOneSided(findingsA, findingsB) ==
    IF findingsA = << >> /\ findingsB = << >> THEN 100
    ELSE LET matchingFindings == Cardinality({j \in 1..Len(findingsA) :
                                    \E k \in 1..Len(findingsB) :
                                        findingsMatch(findingsA[j], findingsB[k])})
             totalUniqueFindings == {createFindingSignature(f) :
                                        f \in Range(findingsA) \cup Range(findingsB)}
         IN Min(Round(matchingFindings * 100, Cardinality(totalUniqueFindings)), 100)

\* matrix[agentA][agentB] of buildAgreementMatrix for two different agents
pairAgreement(findingsA, findingsB) ==
    IF findingsA = << >> /\ findingsB = << >> THEN 100
    ELSE LET matchingFindings == Cardinality({j \in 1..Len(findingsA) :
                                    \E k \in 1..Len(findingsB) :
                                        findingsMatch(findingsA[j], findingsB[k])})
             totalUniqueFindings == {createFindingSignature(f) :
                                        f \in Range(findingsA) \cup Range(findingsB)}
             agreement == Round(matchingFindings * 2 * 100, Cardinality(totalUniqueFindings))
         IN Min(agreement, 100)

buildAgreementMatrix(outputs) ==
    [a \in 1..Len(outputs) |-> [b \in 1..Len(outputs) |->
        IF a = b THEN 100
        ELSE pairAgreement(outputs[a].findings, outputs[b].findings)]]

RECURSIVE SumOver(_, _)
SumOver(f, S) ==
    IF S = {} THEN 0
    ELSE LET x == CHOOSE y \in S : TRUE IN f[x] + SumOver(f, S \ {x})

majorityThresholdFloor(totalAgents) == totalAgents \div 2

\* Math.ceil(totalAgents / 2)
majorityThreshold(totalAgents) == (totalAgents + 1) \div 2

\* the loop of calculateConfidence over allFindings: the countAgreements
\* result of every unique finding
agreementsOf(outputs, crits) ==
    LET allFindings == collectAllFindings(outputs)
    IN [j \in 1..Len(allFindings) |-> countAgreements(allFindings[j].finding, outputs, crits)]

avgPairwiseAgreementAllEntries(agreementMatrix) ==
    LET n == Len(agreementMatrix)
        pairs == {p \in (1..n) \X (1..n) : p[1] # p[2]}
    IN IF pairs # {}
       THEN Round(SumOver([p \in pairs |-> agreementMatrix[p[1]][p[2]]], pairs),
                  Cardinality(pairs))
       ELSE 100

\* the average over the entries [i][j] with i < j
avgPairwiseAgreement(agreementMatrix) ==
    LET n == Len(agreementMatrix)
        pairs == {p \in (1..n) \X (1..n) : p[1] < p[2]}
        totalPairwiseAgreement == SumOver([p \in pairs |-> agreementMatrix[p[1]][p[2]]], pairs)
        pairCount == Cardinality(pairs)
    IN IF pairCount > 0 THEN Round(totalPairwiseAgreement, pairCount) ELSE 100

\* the local values of calculateConfidence
confidenceLocals(outputs, crits) ==
    LET allFindings == collectAllFindings(outputs)
        agreements == agreementsOf(outputs, crits)
        agreedFindings == Cardinality({j \in 1..Len(allFindings) :
                              Len(agreements[j].agrees) >= majorityThreshold(Len(outputs))})
        agreementMatrix == buildAgreementMatrix(outputs)
    IN [allFindings |-> allFindings,
        agreements |-> agreements,
        agreedFindings |-> agreedFindings,
        agreementConfidence |-> IF Len(allFindings) > 0
                                THEN Round(agreedFindings * 100, Len(allFindings))
                                ELSE 100,
        agreementMatrix |-> agreementMatrix,
        avgPairwiseAgreement |-> avgPairwiseAgreement(agreementMatrix)]

\* 6 * agreementConfidence + 4 * avgPairwiseAgreement is even, so the sum
\* rounded by calculateConfidence is never halfway between two integers
calculateConfidence(outputs, crits, threshold) ==
    LET locals == confidenceLocals(outputs, crits)
        finalConfidence == Round(6 * locals.agreementConfidence
                                 + 4 * locals.avgPairwiseAgreement, 10)
    IN [score |-> finalConfidence,
        converged |-> finalConfidence >= threshold,
        agreementMatrix |-> locals.agreementMatrix,
        agreedFindings |-> locals.agreedFindings,
        totalFindings |-> Len(locals.allFindings)]

\* the worker results of k agents and the critiques of a round over them
AgentOutputsUpTo(k, m) ==
    {[a \in 1..k |-> [agent |-> a, findings |-> fl[a]]] :
        fl \in [1..k -> SeqsUpTo(FindingUniverse, m)]}

AgentOutputsOf(k) == AgentOutputsUpTo(k, ReviewFindingsBound)

CritiqueVotes == [findingTitle : VoteTitles, vote : VoteValues]

CritiquesOf(k) ==
    [{p \in (1..k) \X (1..k) : p[1] # p[2]} -> SeqsUpTo(CritiqueVotes, CritiqueVotesBound)]

\* runReviewDebate360 calls calculateConfidence after the critiques of a round
ConfidenceInit ==
    /\ fn = "calculateConfidence"
    /\ \/ \E k \in 2..ReviewAgentsBound :
            args \in [agentOutputs : AgentOutputsOf(k), critiques : CritiquesOf(k),
                      threshold : {DEFAULT_CONFIDENCE_THRESHOLD}]
       \/ args \in [agentOutputs : AgentOutputsUpTo(2, PairFindingsBound),
                    critiques : CritiquesOf(2),
                    threshold : {DEFAULT_CONFIDENCE_THRESHOLD}]
    /\ ret = NoResult
    /\ ValidationIdle
    /\ DebateIdle
    /\ ExecIdle

CalculateConfidence ==
    /\ fn = "calculateConfidence"
    /\ ret = NoResult
    /\ ret' = [kind |-> "value",
               value |-> calculateConfidence(args.agentOutputs, args.critiques, args.threshold),
               locals |-> confidenceLocals(args.agentOutputs, args.critiques)]
    /\ UNCHANGED <<fn, args, validationVars, execVars, debateVars>>

ConfidenceSpec == ConfidenceInit /\ [][CalculateConfidence]_vars

(***************************************************************************)
(* Part V: plan consensus (plan-debate360.ts)                              *)
(***************************************************************************)

\* Steps are records [phase, title], titles as in Part IV.
StepPhases == {1, 2}
StepTitles == {<<"cache">>, <<"cache", "layer">>}
StepUniverse == [phase : StepPhases, title : StepTitles]

\* a vote of parsePlanCritiqueVotes: step_title ("" when missing) and vote
StepVoteTitles == {<< >>, <<"cache">>}
StepVoteValues == {"agree", "disagree", "modify"}
PlanStepVotes == [stepTitle : StepVoteTitles, vote : StepVoteValues]

createStepSignature(step) == <<step.phase, step.title>>

\* the agree votes calculatePlanConsensus counts for the signature sig
agreeVotes(sig, planOutputs, crits) ==
    {x \in (DOMAIN crits) \X (1..CritiqueVotesBound) \X (1..Len(planOutputs))
             \X (1..PlanStepsBound) :
        LET critique == crits[x[1]]
            target == x[1][2]
        IN /\ x[2] <= Len(critique)
           /\ planOutputs[x[3]].agent = target
           /\ x[4] <= Len(planOutputs[x[3]].steps)
           /\ LET vote == critique[x[2]]
                  step == planOutputs[x[3]].steps[x[4]]
              IN /\ \/ TitleIncludes(step.title, vote.stepTitle)
                    \/ TitleIncludes(vote.stepTitle, step.title)
                 /\ createStepSignature(step) = sig
                 /\ vote.vote = "agree"}

\* Math.round is taken of the exact quotient
calculatePlanConsensus(planOutputs, crits) ==
    LET totalAgents == Len(planOutputs)
        sigs == {createStepSignature(planOutputs[a].steps[j]) :
                    <<a, j>> \in {y \in (1..Len(planOutputs)) \X (1..PlanStepsBound) :
                                     y[2] <= Len(planOutputs[y[1]].steps)}}
        stepAgreements == [sig \in sigs |->
                              1 + Cardinality(agreeVotes(sig, planOutputs, crits))]
        stepCount == Cardinality(sigs)
    IN IF totalAgents < 2 THEN 100
       ELSE IF stepCount > 0
            THEN Round(100 * SumOver(stepAgreements, sigs), totalAgents * stepCount)
            ELSE 100

\* the plans of k agents and the critiques of a round over them
PlanOutputsOf(k) ==
    {[a \in 1..k |-> [agent |-> a, steps |-> sl[a]]] :
        sl \in [1..k -> SeqsUpTo(StepUniverse, PlanStepsBound)]}

PlanCritiquesOf(k) ==
    [{p \in (1..k) \X (1..k) : p[1] # p[2]} -> SeqsUpTo(PlanStepVotes, CritiqueVotesBound)]

\* runPlanDebate360 calls calculatePlanConsensus after the critiques of a round
PlanConsensusInit ==
    /\ fn = "calculatePlanConsensus"
    /\ \E k \in 1..PlanAgentsBound :
         args \in [planOutputs : PlanOutputsOf(k), critiques : PlanCritiquesOf(k)]
    /\ ret = NoResult
    /\ ValidationIdle
    /\ DebateIdle
    /\ ExecIdle

\* confidence = consensusScore
CalculatePlanConsensus ==
    /\ fn = "calculatePlanConsensus"
    /\ ret = NoResult
    /\ ret' = [kind |-> "value",
               value |-> calculatePlanConsensus(args.planOutputs, args.critiques)]
    /\ UNCHANGED <<fn, args, validationVars, execVars, debateVars>>

PlanConsensusSpec == PlanConsensusInit /\ [][CalculatePlanConsensus]_vars

(***************************************************************************)
(* Part VI: the review judge (judge.ts)                                    *)
(***************************************************************************)

SCORING_WEIGHTS ==
    [P0_POINTS |-> 15, P0_MAX |-> 45,
     P1_POINTS |-> 8, P1_MAX |-> 32,
     P2_POINTS |-> 3, P2_MAX |-> 12,
     FALSE_POSITIVE_PENALTY |-> -10, FALSE_POSITIVE_MAX |-> -30,
     CONCRETE_FIX_POINTS |-> 5, CONCRETE_FIX_MAX |-> 25,
     FILE_ACCURACY_POINTS |-> 2, FILE_ACCURACY_MAX |-> 10,
     CLARITY_MAX |-> 10]

Max(a, b) == IF a >= b THEN a ELSE b

\* A scored finding is a record [severity, file, fix, detail]: file is
\* [path, line] with path the sequence of the path segments (<< >> when the
\* finding has no file) and line the text after the colon; fix is the kind of
\* text: "" (missing), "short" (ten characters or less), "code" (holds a
\* backtick), "call" (holds name( or .name), "prose" (any other); detail is
\* "" or "text".
NoFile == [path |-> << >>, line |-> ""]
JudgeFindings ==
    { [severity |-> "P0", file |-> [path |-> <<"src", "a.ts">>, line |-> "10"],
       fix |-> "code", detail |-> "text"],
      [severity |-> "P1", file |-> [path |-> <<"lib", "zzz.ts">>, line |-> ""],
       fix |-> "prose", detail |-> "text"],
      [severity |-> "P2", file |-> NoFile, fix |-> "", detail |-> ""],
      [severity |-> "P1", file |-> [path |-> <<"index.ts">>, line |-> "x"],
       fix |-> "call", detail |-> "text"],
      [severity |-> "P2", file |-> [path |-> <<"a.ts">>, line |-> ""],
       fix |-> "short", detail |-> "text"] }

\* the file lists of the diff
DiffFileLists == {<< >>, <<<<"src", "a.ts">>>>}

\* the basenames that contain one of the commonPatterns
CommonBaseNames == {"index.ts"}

calculateSeverityScoreUncapped(findings, severity, points, max) ==
    Cardinality({j \in 1..Len(findings) : findings[j].severity = severity}) * points

calculateSeverityScore(findings, severity, points, max) ==
    LET count == Cardinality({j \in 1..Len(findings) : findings[j].severity = severity})
    IN Min(count * points, max)

\* a.endsWith(b) on paths, segment by segment
PathEndsWith(a, b) ==
    /\ Len(b) <= Len(a)
    /\ \A j \in 1..Len(b) : a[Len(a) - Len(b) + j] = b[j]

\* the test both file scores make for a finding's path
existsInDiff(filePath, diffFiles) ==
    \E d \in 1..Len(diffFiles) :
        LET diffFile == diffFiles[d] IN
        \/ diffFile = filePath
        \/ PathEndsWith(diffFile, filePath)
        \/ PathEndsWith(filePath, diffFile)
        \/ diffFile[Len(diffFile)] = filePath[Len(filePath)]

isCommonFileName(filePath) == filePath[Len(filePath)] \in CommonBaseNames

calculateFalsePositiveScore(findings, diffFiles) ==
    LET penalized == {j \in 1..Len(findings) :
                        /\ findings[j].file.path # << >>
                        /\ ~existsInDiff(findings[j].file.path, diffFiles)
                        /\ ~isCommonFileName(findings[j].file.path)}
    IN Max(Cardinality(penalized) * SCORING_WEIGHTS.FALSE_POSITIVE_PENALTY, SCORING_WEIGHTS.FALSE_POSITIVE_MAX)

\* twice the count a fix adds in calculateConcreteFixScore
fixCount2(fix) ==
    IF fix \in {"", "short"} THEN 0
    ELSE IF fix = "code" THEN 4 ELSE IF fix = "call" THEN 2 ELSE 1

calculateConcreteFixScore(findings) ==
    LET count2 == SumOver([j \in 1..Len(findings) |-> fixCount2(findings[j].fix)],
                          1..Len(findings))
    IN Min((count2 * SCORING_WEIGHTS.CONCRETE_FIX_POINTS) \div 2, SCORING_WEIGHTS.CONCRETE_FIX_MAX)

\* the line number matches /^\d+$/
IsNumber(line) == line \in {"10"}

calculateFileAccuracyScore(findings, diffFiles) ==
    LET count2of(f) == IF f.file.path # << >> /\ existsInDiff(f.file.path, diffFiles)
                       THEN 2 + (IF IsNumber(f.file.line) THEN 1 ELSE 0)
                       ELSE 0
        count2 == SumOver([j \in 1..Len(findings) |-> count2of(findings[j])],
                          1..Len(findings))
    IN Min((count2 * SCORING_WEIGHTS.FILE_ACCURACY_POINTS) \div 2, SCORING_WEIGHTS.FILE_ACCURACY_MAX)

calculateClarityScore(review) ==
    LET wellFormedFindings == {j \in 1..Len(review.findings) :
                                  /\ review.findings[j].detail # ""
                                  /\ review.findings[j].fix # ""}
        score == (IF Len(review.findings) > 0 THEN 3 ELSE 0)
                 + (IF review.residual_risks > 0 THEN 2 ELSE 0)
                 + (IF review.open_questions > 0 THEN 2 ELSE 0)
                 + (IF Cardinality(wellFormedFindings) = Len(review.findings)
                       /\ Len(review.findings) > 0 THEN 3 ELSE 0)
    IN Min(score, SCORING_WEIGHTS.CLARITY_MAX)

scoreReviewOutput(review, diffFiles) ==
    LET p0Score == calculateSeverityScore(review.findings, "P0", SCORING_WEIGHTS.P0_POINTS, SCORING_WEIGHTS.P0_MAX)
        p1Score == calculateSeverityScore(review.findings, "P1", SCORING_WEIGHTS.P1_POINTS, SCORING_WEIGHTS.P1_MAX)
        p2Score == calculateSeverityScore(review.findings, "P2", SCORING_WEIGHTS.P2_POINTS, SCORING_WEIGHTS.P2_MAX)
        falsePositiveScore == calculateFalsePositiveScore(review.findings, diffFiles)
        concreteFixScore == calculateConcreteFixScore(review.findings)
        fileAccuracyScore == calculateFileAccuracyScore(review.findings, diffFiles)
        clarityScore == calculateClarityScore(review)
    IN [p0_findings |-> p0Score,
        p1_findings |-> p1Score,
        p2_findings |-> p2Score,
        false_positives |-> falsePositiveScore,
        concrete_fixes |-> concreteFixScore,
        file_accuracy |-> fileAccuracyScore,
        clarity |-> clarityScore,
        total |-> p0Score + p1Score + p2Score + falsePositiveScore + concreteFixScore
                  + fileAccuracyScore + clarityScore]

\* a review: its findings and the lengths of residual_risks and open_questions
ReviewOutputs ==
    [findings : SeqsUpTo(JudgeFindings, JudgeFindingsBound),
     residual_risks : {0, 1}, open_questions : {0, 1}]

\* scoreRound scores the review of an agent against the files of the diff
ScoreInit ==
    /\ fn = "scoreReviewOutput"
    /\ args \in [review : ReviewOutputs, diffFiles : DiffFileLists]
    /\ ret = NoResult
    /\ ValidationIdle
    /\ DebateIdle
    /\ ExecIdle

ScoreReviewOutput ==
    /\ fn = "scoreReviewOutput"
    /\ ret = NoResult
    /\ ret' = [kind |-> "value", value |-> scoreReviewOutput(args.review, args.diffFiles)]
    /\ UNCHANGED <<fn, args, validationVars, execVars, debateVars>>

ScoreSpec == ScoreInit /\ [][ScoreReviewOutput]_vars

(***************************************************************************)
(* Part VII: the plan judge (plan-judge.ts, scorePlanRound)                *)
(***************************************************************************)

PLAN_SCORING_WEIGHTS ==
    [CLARITY_MAX |-> 30, COMPLETENESS_MAX |-> 30,
     FEASIBILITY_MAX |-> 20, CONSENSUS_MAX |-> 20]

\* A scored step is a record [phase, title, description, files, dependencies]:
\* title as in Part V, description "" or "long" (twenty characters or more),
\* files a list of paths (sequences of segments), dependencies a list of titles.
ScoredSteps ==
    { [phase |-> 1, title |-> <<"cache">>, description |-> "long",
       files |-> <<<<"src", "A.ts">>>>, dependencies |-> << >>],
      [phase |-> 2, title |-> <<"cache", "layer">>, description |-> "",
       files |-> << >>, dependencies |-> <<<<"Cache", "layer">>>>],
      [phase |-> 1, title |-> <<"cache">>, description |-> "long",
       files |-> << >>, dependencies |-> <<<<"queue">>>>] }

\* title.length >= 5; every title of ScoredSteps has five characters or more
TitleIsClear(title) == Len(title) > 0

\* toLowerCase() of a word and of a title
LowerWord(w) == IF w = "Cache" THEN "cache" ELSE w
lowerTitle(title) == [j \in 1..Len(title) |-> LowerWord(title[j])]

\* (file.split("/").pop() || file).toLowerCase()
lowerBasename(file) == lowerFile(file[Len(file)])

\* twice the score before Math.round: the step files add 1.5 each
planClarityScore(plan) ==
    LET steps == plan.steps
        stepsWithTitles == {j \in 1..Len(steps) : TitleIsClear(steps[j].title)}
        stepsWithDescriptions == {j \in 1..Len(steps) : steps[j].description = "long"}
        stepsWithFiles == {j \in 1..Len(steps) : Len(steps[j].files) > 0}
        score2 == (IF Len(steps) > 0 THEN 10 ELSE 0)
                  + 2 * Min(Cardinality(stepsWithTitles) * 2, 8)
                  + 2 * Min(Cardinality(stepsWithDescriptions) * 2, 8)
                  + Min(Cardinality(stepsWithFiles) * 3, 12)
                  + (IF plan.summary = "long" THEN 6 ELSE 0)
    IN Min(Round(score2, 2), PLAN_SCORING_WEIGHTS.CLARITY_MAX)

planCompletenessScore(plan, diffFiles) ==
    LET steps == plan.steps
        mentionedFiles == {lowerBasename(steps[j].files[f]) :
                              <<j, f>> \in {y \in (1..Len(steps)) \X (1..1) :
                                               y[2] <= Len(steps[y[1]].files)}}
        coveredCount == Cardinality({d \in 1..Len(diffFiles) :
                                        lowerBasename(diffFiles[d]) \in mentionedFiles})
        coverage == IF Len(steps) > 0 /\ Len(diffFiles) > 0
                    THEN Round(coveredCount * 15, Len(diffFiles))
                    ELSE IF Len(steps) > 0 THEN 10 ELSE 0
        phaseSet == {steps[j].phase : j \in 1..Len(steps)}
        phaseScore == IF Cardinality(phaseSet) >= 3 THEN 5
                      ELSE IF Cardinality(phaseSet) >= 2 THEN 3 ELSE 0
        score == coverage + phaseScore
                 + (IF plan.risks > 0 THEN Min(plan.risks * 2, 5) ELSE 0)
                 + (IF plan.open_questions > 0 THEN Min(plan.open_questions * 2, 5) ELSE 0)
    IN Min(score, PLAN_SCORING_WEIGHTS.COMPLETENESS_MAX)

planFeasibilityScore(plan) ==
    LET steps == plan.steps
        stepCount == Len(steps)
        isOrdered == \A i \in 2..stepCount : ~(steps[i].phase < steps[i - 1].phase)
        stepTitles == {lowerTitle(steps[j].title) : j \in 1..stepCount}
        validDeps == \A j \in 1..stepCount :
                        \A d \in 1..Len(steps[j].dependencies) :
                            lowerTitle(steps[j].dependencies[d]) \in stepTitles
        score == (IF stepCount > 0 THEN 5 ELSE 0)
                 + (IF stepCount >= 2 THEN (IF isOrdered THEN 5 ELSE 0)
                    ELSE IF stepCount = 1 THEN 5 ELSE 0)
                 + (IF stepCount > 0 /\ validDeps THEN 5 ELSE 0)
                 + (IF stepCount >= 3 /\ stepCount <= 15 THEN 5
                    ELSE IF stepCount >= 2 /\ stepCount <= 20 THEN 3
                    ELSE IF stepCount >= 1 THEN 1 ELSE 0)
    IN Min(score, PLAN_SCORING_WEIGHTS.FEASIBILITY_MAX)

scorePlanOutput(plan, diffFiles, consensusScore) ==
    LET clarityScore == planClarityScore(plan)
        completenessScore == planCompletenessScore(plan, diffFiles)
        feasibilityScore == planFeasibilityScore(plan)
        cappedConsensus == Min(consensusScore, PLAN_SCORING_WEIGHTS.CONSENSUS_MAX)
    IN [clarity |-> clarityScore,
        completeness |-> completenessScore,
        feasibility |-> feasibilityScore,
        consensus |-> cappedConsensus,
        total |-> clarityScore + completenessScore + feasibilityScore + cappedConsensus]

\* Math.round((baseScore.total / 80) * (consensusScore / 100) * 20)
scorePlanRound(planOutputs, diffFiles, consensusScore) ==
    [a \in 1..Len(planOutputs) |->
        LET baseScore == scorePlanOutput(planOutputs[a], diffFiles, 0)
            adjustedConsensus == Round(baseScore.total * consensusScore, 400)
        IN [clarity |-> baseScore.clarity,
            completeness |-> baseScore.completeness,
            feasibility |-> baseScore.feasibility,
            consensus |-> adjustedConsensus,
            total |-> baseScore.clarity + baseScore.completeness
                      + baseScore.feasibility + adjustedConsensus]]

\* the plans of k agents: steps, summary ("" or "long") and the lengths of
\* risks and open_questions
ScoredPlansOf(k) ==
    {[a \in 1..k |-> [agent |-> a, steps |-> pl[a].steps, summary |-> pl[a].summary,
                      risks |-> pl[a].risks, open_questions |-> pl[a].open_questions]] :
        pl \in [1..k -> [steps : SeqsUpTo(ScoredSteps, PlanStepsBound),
                         summary : {"", "long"}, risks : {0, 3},
                         open_questions : {0, 3}]]}

\* the plans and the critiques of a round of runPlanDebate360 at line 772
PlanScoreInit ==
    /\ fn = "scorePlanRound"
    /\ \E k \in 1..PlanAgentsBound :
         args \in [planOutputs : ScoredPlansOf(k), critiques : PlanCritiquesOf(k),
                   diffFiles : DiffFileLists]
    /\ ret = NoResult
    /\ ValidationIdle
    /\ DebateIdle
    /\ ExecIdle

\* consensusScore = calculatePlanConsensus(planOutputs, critiques);
\* scores = scorePlanRound(planOutputs, diffResult.files, consensusScore)
ScorePlanRound ==
    /\ fn = "scorePlanRound"
    /\ ret = NoResult
    /\ LET consensusScore == calculatePlanConsensus(args.planOutputs, args.critiques)
       IN ret' = [kind |-> "value",
                  consensusScore |-> consensusScore,
                  value |-> scorePlanRound(args.planOutputs, args.diffFiles, consensusScore)]
    /\ UNCHANGED <<fn, args, validationVars, execVars, debateVars>>

PlanScoreSpec == PlanScoreInit /\ [][ScorePlanRound]_vars

(***************************************************************************)
(* Part VIII: the parsers of the worker output (judge.ts, plan-judge.ts)   *)
(***************************************************************************)

\* A JSON value of a field is a record [t, v]: t is its type ("absent" for
\* a missing property) and v its text.
Absent == [t |-> "absent", v |-> ""]
Str(s) == [t |-> "str", v |-> s]
Num(s) == [t |-> "num", v |-> s]
Obj == [t |-> "obj", v |-> ""]

\* the operand of || and of ?: counts as true
Truthy(x) ==
    /\ x.t \notin {"absent", "null"}
    /\ ~(x.t = "str" /\ x.v = "")
    /\ ~(x.t = "num" /\ x.v = "0")

\* a || b
Or(a, b) == IF Truthy(a) THEN a ELSE b

\* String(x)
StringOf(x) ==
    CASE x.t = "str" -> x.v
      [] x.t = "num" -> x.v
      [] x.t = "obj" -> "[object Object]"
      [] x.t = "null" -> "null"
      [] OTHER -> "undefined"

\* toUpperCase()
UpperCase(s) == CASE s = "p0" -> "P0" [] s = "high" -> "HIGH" [] OTHER -> s

\* the value of an optional field that is not set
Undefined == "<undefined>"

\* an exception leaving a function
Throw == [kind |-> "throw"]

\* An entry of a findings list: t is "null", "str" or "obj"; the properties of
\* an entry that is not an object are all absent.
NonObjectEntry(t) ==
    [t |-> t, severity |-> Absent, title |-> Absent, file |-> Absent,
     detail |-> Absent, description |-> Absent, fix |-> Absent, suggestion |-> Absent]
RawFindingEntries ==
    {NonObjectEntry("null"), NonObjectEntry("str")}
    \cup [t : {"obj"},
          severity : {Absent, Str("p0"), Str("high"), Str(""), Num("7"), Obj},
          title : {Absent, Str("t"), Num("7")},
          file : {Absent, Str("a.ts")},
          detail : {Absent, Str("d")},
          description : {Absent, Str("desc")},
          fix : {Absent},
          suggestion : {Str("s")}]

\* A list-valued field: t is "absent", "str" or "arr", items the elements.
NotArray == {[t |-> "absent", items |-> << >>], [t |-> "str", items |-> << >>]}
ArrayOf(S, k) == {[t |-> "arr", items |-> q] : q \in SeqsUpTo(S, k)}

\* the object JSON.parse returns for a review
ReviewJson ==
    [t : {"obj"},
     findings : NotArray \cup ArrayOf(RawFindingEntries, ParseEntriesBound),
     residual_risks : NotArray \cup ArrayOf({Str("r"), Num("7")}, 1),
     open_questions : {[t |-> "absent", items |-> << >>]} \cup ArrayOf({Str("q")}, 1)]

\* the text around the JSON: the lines the patterns of parseLegacyOutput find
LegacyLines == {[severity |-> "P1", title |-> "t", file |-> "a.ts"]}
NoJson == [t |-> "none"]
MalformedJson == [t |-> "malformed"]

\* A raw review text: what /\{[\s\S]*\}/ matches (nothing, text JSON.parse
\* rejects, or an object) and what the legacy patterns find in the text.
RawReviewTexts ==
    [json : {NoJson, MalformedJson} \cup ReviewJson,
     legacy : SeqsUpTo(LegacyLines, 1),
     risks : SeqsUpTo({"r"}, 1),
     questions : SeqsUpTo({"q"}, 1)]

normalizeFinding(raw) ==
    IF raw.t = "null" THEN Throw
    ELSE IF raw.severity.t \notin {"absent", "null", "str"} THEN Throw
    ELSE [kind |-> "value",
          value |-> [severity |-> IF raw.severity.t = "str" /\ UpperCase(raw.severity.v) # ""
                                  THEN UpperCase(raw.severity.v) ELSE "P2",
                     title |-> StringOf(Or(raw.title, Str("Untitled Issue"))),
                     file |-> IF Truthy(raw.file) THEN StringOf(raw.file) ELSE Undefined,
                     detail |-> StringOf(Or(Or(raw.detail, raw.description), Str(""))),
                     fix |-> StringOf(Or(Or(raw.fix, raw.suggestion), Str("")))]]

parseLegacyOutput(output) ==
    [findings |-> [j \in 1..Len(output.legacy) |->
                      [severity |-> output.legacy[j].severity,
                       title |-> output.legacy[j].title,
                       file |-> output.legacy[j].file,
                       detail |-> "",
                       fix |-> ""]],
     residual_risks |-> output.risks,
     open_questions |-> output.questions]

\* the body of the try block of parseReviewOutput
reviewTryBlock(rawOutput) ==
    IF rawOutput.json.t = "none"
    THEN [kind |-> "value", value |-> parseLegacyOutput(rawOutput)]
    ELSE IF rawOutput.json.t = "malformed" THEN Throw
    ELSE LET parsed == rawOutput.json
             mapped == [j \in 1..Len(parsed.findings.items) |->
                           normalizeFinding(parsed.findings.items[j])]
         IN IF parsed.findings.t = "arr" /\ \E j \in DOMAIN mapped : mapped[j] = Throw
            THEN Throw
            ELSE [kind |-> "value",
                  value |-> [findings |-> IF parsed.findings.t = "arr"
                                          THEN [j \in DOMAIN mapped |-> mapped[j].value]
                                          ELSE << >>,
                             residual_risks |->
                                 IF parsed.residual_risks.t = "arr"
                                 THEN [j \in 1..Len(parsed.residual_risks.items) |->
                                          parsed.residual_risks.items[j].v]
                                 ELSE << >>,
                             open_questions |->
                                 IF parsed.open_questions.t = "arr"
                                 THEN [j \in 1..Len(parsed.open_questions.items) |->
                                          parsed.open_questions.items[j].v]
                                 ELSE << >>]]

parseReviewOutputNoCatch(rawOutput) == reviewTryBlock(rawOutput)

parseReviewOutput(rawOutput) ==
    IF reviewTryBlock(rawOutput) = Throw
    THEN [kind |-> "value", value |-> parseLegacyOutput(rawOutput)]
    ELSE reviewTryBlock(rawOutput)

\* An entry of a steps list.
RawStepEntries ==
    {[t |-> "null", phase |-> Absent, title |-> Absent, description |-> Absent,
      files |-> [t |-> "absent", items |-> << >>]]}
    \cup [t : {"str", "obj"},
          phase : {Absent},
          title : {Absent},
          description : {Absent},
          files : {[t |-> "absent", items |-> << >>]}]
    \cup [t : {"obj"},
          phase : {Absent, Num("2"), Str("2")},
          title : {Absent, Str("t"), Num("7")},
          description : {Absent, Str("d")},
          files : NotArray \cup ArrayOf({Str("a.ts"), Num("7")}, 1)]

\* the object JSON.parse returns for a plan
PlanJson ==
    [t : {"obj"},
     steps : NotArray \cup ArrayOf(RawStepEntries, ParseEntriesBound),
     summary : {Absent, Str("sum"), Num("7")},
     risks : NotArray \cup ArrayOf({Str("r"), Num("7")}, 1),
     open_questions : {[t |-> "absent", items |-> << >>]} \cup ArrayOf({Obj}, 1)]

RawPlanTexts == [json : {NoJson, MalformedJson} \cup PlanJson]

\* phase and consensus are numbers, here their text
normalizePlanStep(raw) ==
    IF raw.t = "null" THEN Throw
    ELSE [kind |-> "value",
          value |-> [phase |-> IF raw.phase.t = "num" THEN raw.phase.v ELSE "1",
                     title |-> StringOf(Or(raw.title, Str("Untitled Step"))),
                     description |-> StringOf(Or(raw.description, Str(""))),
                     files |-> IF raw.files.t = "arr"
                               THEN [j \in 1..Len(raw.files.items) |->
                                        StringOf(raw.files.items[j])]
                               ELSE <<Undefined>>,
                     consensus |-> "0"]]

defaultPlanOutput == [steps |-> << >>, summary |-> "", risks |-> << >>, open_questions |-> << >>]

\* the body of the try block of parsePlanOutput
planTryBlock(rawOutput) ==
    IF rawOutput.json.t = "none" THEN [kind |-> "value", value |-> defaultPlanOutput]
    ELSE IF rawOutput.json.t = "malformed" THEN Throw
    ELSE LET parsed == rawOutput.json
             mapped == [j \in 1..Len(parsed.steps.items) |->
                           normalizePlanStep(parsed.steps.items[j])]
         IN IF parsed.steps.t = "arr" /\ \E j \in DOMAIN mapped : mapped[j] = Throw
            THEN Throw
            ELSE [kind |-> "value",
                  value |-> [steps |-> IF parsed.steps.t = "arr"
                                       THEN [j \in DOMAIN mapped |-> mapped[j].value]
                                       ELSE << >>,
                             summary |-> IF parsed.summary.t = "str"
                                         THEN parsed.summary.v ELSE "",
                             risks |-> IF parsed.risks.t = "arr"
                                       THEN [j \in 1..Len(parsed.risks.items) |->
                                                StringOf(parsed.risks.items[j])]
                                       ELSE << >>,
                             open_questions |->
                                 IF parsed.open_questions.t = "arr"
                                 THEN [j \in 1..Len(parsed.open_questions.items) |->
                                          StringOf(parsed.open_questions.items[j])]
                                 ELSE << >>]]

parsePlanOutput(rawOutput) ==
    IF planTryBlock(rawOutput) = Throw
    THEN [kind |-> "value", value |-> defaultPlanOutput]
    ELSE planTryBlock(rawOutput)

\* a worker result is parsed: a review text or a plan text
ParseInit ==
    /\ \/ fn = "parseReviewOutput" /\ args \in [rawOutput : RawReviewTexts]
       \/ fn = "parsePlanOutput" /\ args \in [rawOutput : RawPlanTexts]
    /\ ret = NoResult
    /\ ValidationIdle
    /\ DebateIdle
    /\ ExecIdle

ParseReviewOutput ==
    /\ fn = "parseReviewOutput"
    /\ ret = NoResult
    /\ ret' = parseReviewOutput(args.rawOutput)
    /\ UNCHANGED <<fn, args, validationVars, execVars, debateVars>>

ParsePlanOutput ==
    /\ fn = "parsePlanOutput"
    /\ ret = NoResult
    /\ ret' = parsePlanOutput(args.rawOutput)
    /\ UNCHANGED <<fn, args, validationVars, execVars, debateVars>>

ParseNext == ParseReviewOutput \/ ParsePlanOutput

ParseSpec == ParseInit /\ [][ParseNext]_vars

(***************************************************************************)
(* Part IX: the validity of a worker's round result (debate360.ts)         *)
(***************************************************************************)

\* raw_output.length values explored, around the minimum of 50
RawLengths == {0, 10, 49, 50, 80}

\* How runAgentForReview and parseReviewOutput end for a worker: the call
\* throws, or it returns a text (errorPrefix: the text starts with "Error:")
\* that was parsed to findings, residual_risks and open_questions of the given
\* lengths; a text that holds any of them has ten characters or more.
ReviewTaskOutcomes ==
    {[kind |-> "throws", errorPrefix |-> TRUE, rawLength |-> 0,
      findings |-> 0, residual_risks |-> 0, open_questions |-> 0]}
    \cup {o \in [kind : {"returns"}, errorPrefix : BOOLEAN, rawLength : RawLengths,
                 findings : 0..1, residual_risks : 0..1, open_questions : 0..1] :
            /\ o.errorPrefix => o.rawLength >= 10
            /\ o.findings + o.residual_risks + o.open_questions > 0 => o.rawLength >= 10}

\* the AgentDebateOutput the mapped function of runParallelReview returns
reviewTaskOutput(outcome) ==
    IF outcome.kind = "throws"
    THEN [outputStartsWithError |-> TRUE,
          review |-> [findings |-> 0, residual_risks |-> 0, open_questions |-> 0,
                      raw_output |-> 0],
          failed |-> TRUE]
    ELSE [outputStartsWithError |-> outcome.errorPrefix,
          review |-> [findings |-> outcome.findings,
                      residual_risks |-> outcome.residual_risks,
                      open_questions |-> outcome.open_questions,
                      raw_output |-> outcome.rawLength],
          failed |-> FALSE]

isValidReviewOutputNoLength(output) ==
    IF output.outputStartsWithError THEN FALSE
    ELSE ~(/\ output.review.findings = 0
           /\ output.review.residual_risks = 0
           /\ output.review.open_questions = 0)

\* isValidAgentOutput on the fields of the output, lengths for the lists
isValidReviewOutput(output) ==
    IF output.outputStartsWithError THEN FALSE
    ELSE IF /\ output.review.findings = 0
            /\ output.review.residual_risks = 0
            /\ output.review.open_questions = 0
            /\ output.review.raw_output < 50
         THEN FALSE
         ELSE TRUE

ValidityInit ==
    /\ fn = "isValidAgentOutput"
    /\ args \in [outcome : ReviewTaskOutcomes, agent : 1..2]
    /\ ret = NoResult
    /\ ValidationIdle
    /\ DebateIdle
    /\ ExecIdle

\* workingAgents = outputs.filter(isValidAgentOutput), for one output
ClassifyOutput ==
    /\ fn = "isValidAgentOutput"
    /\ ret = NoResult
    /\ ret' = [kind |-> "value",
               output |-> reviewTaskOutput(args.outcome),
               value |-> isValidReviewOutput(reviewTaskOutput(args.outcome))]
    /\ UNCHANGED <<fn, args, validationVars, execVars, debateVars>>

ValiditySpec == ValidityInit /\ [][ClassifyOutput]_vars

(***************************************************************************)
(* Part X: the delays of the retry loop (run-agent.ts)                     *)
(***************************************************************************)

\* the retry configurations explored: DEFAULT_RETRY_CONFIG and a per-agent
\* configuration whose cap equals its base delay
RetryConfigs ==
    [maxRetries : 0..BackoffRetriesBound, baseDelayMs : {BaseDelayMs}, maxDelayMs : {MaxDelayMs}]
    \cup [maxRetries : 0..BackoffRetriesBound, baseDelayMs : {1000}, maxDelayMs : {1000}]

\* values of Math.random() explored, in thousandths
JitterValues == {0, 500, 999}

calculateBackoffUncapped(att, config, r) ==
    LET delay == config.baseDelayMs * Pow2(att)
        jitter == (delay * (2 * r - 1000)) \div 10000
    IN delay + jitter

\* calculateBackoff(attempt, config) with Math.random() = r / 1000, in whole ms
calculateBackoffWith(att, config, r) ==
    LET delay == config.baseDelayMs * Pow2(att)
        jitter == (delay * (2 * r - 1000)) \div 10000
    IN Min(delay + jitter, config.maxDelayMs)

\* runAgent is called with a retry configuration
BackoffInit ==
    /\ fn = "runAgent"
    /\ args \in [retryConfig : RetryConfigs]
    /\ ret = NoResult
    /\ ValidationIdle
    /\ DebateIdle
    /\ ExecIdle

\* lines 305-312: with maxRetries = 0 the single attempt decides, here by
\* failing; otherwise the loop starts at attempt 0
BackoffStart ==
    /\ fn = "runAgent"
    /\ ret = NoResult
    /\ ret' = IF args.retryConfig.maxRetries = 0
              THEN [kind |-> "thrown", attempt |-> 0, sleeps |-> << >>]
              ELSE [kind |-> "loop", attempt |-> 0, sleeps |-> << >>]
    /\ UNCHANGED <<fn, args, validationVars, execVars, debateVars>>

\* lines 312-335 when the attempt fails with a retryable error: the delay is
\* slept if an attempt is left, then the loop goes on or line 337 throws
AttemptFails ==
    /\ fn = "runAgent"
    /\ ret # NoResult
    /\ ret.kind = "loop"
    /\ IF ret.attempt < args.retryConfig.maxRetries
       THEN \E r \in JitterValues :
               ret' = [kind |-> "loop", attempt |-> ret.attempt + 1,
                       sleeps |-> Append(ret.sleeps,
                                         calculateBackoffWith(ret.attempt, args.retryConfig, r))]
       ELSE ret' = [ret EXCEPT !.kind = "thrown"]
    /\ UNCHANGED <<fn, args, validationVars, execVars, debateVars>>

BackoffNext == BackoffStart \/ AttemptFails

BackoffSpec == BackoffInit /\ [][BackoffNext]_vars

(***************************************************************************)
(* Part XI: the validation of a request (server handler, config.ts,        *)
(* runPlanDebate360)                                                       *)
(***************************************************************************)

\* the keys of config.agents
ConfiguredAgents == {"claude", "codex"}
\* config.debate.default_agents
DefaultAgents == <<"claude", "codex">>
\* names config.agents inherits from Object.prototype: config.agents is built
\* by an object literal (mergeConfig), so config.agents[name] is a function
\* for them
InheritedNames == {"constructor"}
\* the agent ids a request can list
RequestNames == ConfiguredAgents \cup {"ghost"} \cup InheritedNames

\* options.agents: not given, or a list
AbsentAgents == <<"<absent>">>
RequestAgentLists == {AbsentAgents} \cup SeqsUpTo(RequestNames, RequestAgentsBound)

\* Object.keys(config.agents)
getAgentNames == ConfiguredAgents

\* config.agents[name] is truthy
agentLookup(name) == name \in ConfiguredAgents \cup InheritedNames

\* validateAgents: the error it throws, "none" when it returns
validateAgents(agentNames) ==
    IF \E j \in 1..Len(agentNames) : ~agentLookup(agentNames[j])
    THEN "not configured" ELSE "none"

\* the checks of handleDebate360 on options.agents, lines 473-488
handlerCheck(requested) ==
    IF requested = AbsentAgents THEN "none"
    ELSE IF \E j \in 1..Len(requested) : requested[j] \notin getAgentNames
         THEN "not found"
         ELSE IF Len(requested) < 2 THEN "at least 2 agents" ELSE "none"

\* options.agents || getDefaultAgents(): a list, even an empty one, is truthy
effectiveAgents(requested) == IF requested = AbsentAgents THEN DefaultAgents ELSE requested

RequestError(e) == [kind |-> "error", error |-> e, agents |-> << >>, ran |-> {}, spawned |-> {}]

\* a debate_360 request reaches the handler, or runPlanDebate360 is called
\* through the library
RequestInit ==
    /\ \/ fn = "handleDebate360" /\ args \in [agents : RequestAgentLists, mode : {"review", "plan"}]
       \/ fn = "runPlanDebate360" /\ args \in [agents : RequestAgentLists, mode : {"plan"}]
    /\ ret = NoResult
    /\ ValidationIdle
    /\ DebateIdle
    /\ ExecIdle

\* handleDebate360 up to the call of runDebate360
HandleDebate360 ==
    /\ fn = "handleDebate360"
    /\ ret = NoResult
    /\ ret' = IF handlerCheck(args.agents) # "none"
              THEN RequestError(handlerCheck(args.agents))
              ELSE [kind |-> "runDebate360", error |-> "none", agents |-> << >>,
                    ran |-> {}, spawned |-> {}]
    /\ UNCHANGED <<fn, args, validationVars, execVars, debateVars>>

\* runPlanDebate360 lines 663-684: the configuration and its validation
RunPlanDebate360 ==
    /\ \/ fn = "runPlanDebate360" /\ ret = NoResult
       \/ fn = "handleDebate360" /\ ret # NoResult /\ ret.kind = "runDebate360"
          /\ args.mode = "plan"
    /\ LET planAgents == effectiveAgents(args.agents) IN
       ret' = IF validateAgents(planAgents) # "none"
              THEN RequestError(validateAgents(planAgents))
              ELSE IF Len(planAgents) < 2
              THEN RequestError("at least 2 agents")
              ELSE [kind |-> "planning", error |-> "none", agents |-> planAgents,
                    ran |-> {}, spawned |-> {}]
    /\ UNCHANGED <<fn, args, validationVars, execVars, debateVars>>

\* runParallelPlanning runs runAgent for an agent: getAgentConfig throws for
\* a name without configuration; the function found under an inherited name
\* has no args to spread, so runAgentOnce throws before spawn; a configured
\* agent is spawned
PlanWorkerRun(j) ==
    /\ ret # NoResult
    /\ ret.kind = "planning"
    /\ j \in 1..Len(ret.agents)
    /\ j \notin ret.ran
    /\ ret' = [ret EXCEPT !.ran = @ \cup {j},
                          !.spawned = IF ret.agents[j] \in ConfiguredAgents
                                      THEN @ \cup {j} ELSE @]
    /\ UNCHANGED <<fn, args, validationVars, execVars, debateVars>>

RequestNext ==
    \/ HandleDebate360
    \/ RunPlanDebate360
    \/ \E j \in 1..RequestAgentsBound : PlanWorkerRun(j)

RequestSpec == RequestInit /\ [][RequestNext]_vars

(***************************************************************************)
(* Part XII: plan validation (plan-debate360.ts)                           *)
(***************************************************************************)

\* the titles of composed steps; a composed plan is the list of its titles
ComposedTitles == {"cache", "layer"}
ComposedStepLists == SeqsUpTo(ComposedTitles, ComposedStepsBound)

\* an entry of the votes list a validator prints for n steps: id step_<id>
\* (id = n names no step) and a vote
PlanRawEntries(n) == [id : 0..n, vote : {"approve", "reject"}]

\* how runAgent settles for a plan validator
PlanValidatorOutcomes(n) ==
    {[kind |-> "throws", votes |-> << >>], [kind |-> "nojson", votes |-> << >>],
     [kind |-> "malformed", votes |-> << >>]}
    \cup {[kind |-> "json", votes |-> q] : q \in SeqsUpTo(PlanRawEntries(n), VotesBound)}

\* a vote names its step by stepTitle; step is the position the validator
\* voted on
PlanDefaultApprovals(agent, steps) ==
    [i \in 1..Len(steps) |-> [stepTitle |-> steps[i], step |-> i, agent |-> agent,
                              vote |-> "approve"]]

parsePlanValidationVotes(output, agent, steps) ==
    IF output.kind = "nojson" THEN << >>
    ELSE IF output.kind = "malformed" THEN PlanDefaultApprovals(agent, steps)
    ELSE LET inRange == SelectSeq(output.votes, LAMBDA v : v.id < Len(steps))
         IN [j \in 1..Len(inRange) |->
                [stepTitle |-> steps[inRange[j].id + 1],
                 step |-> inRange[j].id + 1,
                 agent |-> agent,
                 vote |-> IF inRange[j].vote = "reject" THEN "reject" ELSE "approve"]]

\* the task runPlanValidation maps every validator to
planValidatorTask(outcome, agent, steps) ==
    IF outcome.kind = "throws"
    THEN PlanDefaultApprovals(agent, steps)
    ELSE parsePlanValidationVotes(outcome, agent, steps)

\* composedSteps.findIndex(s => s.title === title), 0 for -1
findIndex(steps, title) ==
    IF \E j \in 1..Len(steps) : steps[j] = title
    THEN CHOOSE j \in 1..Len(steps) :
            /\ steps[j] = title
            /\ \A m \in 1..(j - 1) : steps[m] # title
    ELSE 0

\* stepVotes: the tally of every composed step
stepVotes(allVotes, steps) ==
    [i \in 1..Len(steps) |->
        [approves |-> Cardinality({j \in 1..Len(allVotes) :
                          findIndex(steps, allVotes[j].stepTitle) = i
                          /\ allVotes[j].vote = "approve"}),
         rejects  |-> Cardinality({j \in 1..Len(allVotes) :
                          findIndex(steps, allVotes[j].stepTitle) = i
                          /\ allVotes[j].vote # "approve"})]]

\* the tally, the categorisation loop and the object runPlanValidation
\* returns, steps by position
runPlanValidation(steps, outcomes) ==
    LET k == Len(outcomes)
        allVotes == allVotesOf([v \in 1..k |-> planValidatorTask(outcomes[v], v, steps)], k)
        tally == stepVotes(allVotes, steps)
        positions == [i \in 1..Len(steps) |-> i]
        isApproved(i) == tally[i].approves >= tally[i].rejects
        isTie(i) == isApproved(i) /\ tally[i].approves = tally[i].rejects
                    /\ tally[i].approves > 0
    IN [votes |-> allVotes,
        stepVotes |-> tally,
        approvedSteps |-> SelectSeq(positions, isApproved),
        rejectedSteps |-> SelectSeq(positions, LAMBDA i : ~isApproved(i)),
        tieSteps |-> SelectSeq(positions, isTie)]

\* runPlanValidation is called with the composed steps and the validators
PlanValidationInit ==
    /\ fn = "runPlanValidation"
    /\ \E steps \in ComposedStepLists : \E k \in 1..ValidatorsBound :
          args \in [composedSteps : {steps},
                    outcomes : [1..k -> PlanValidatorOutcomes(Len(steps))]]
    /\ ret = NoResult
    /\ ValidationIdle
    /\ DebateIdle
    /\ ExecIdle

RunPlanValidation ==
    /\ fn = "runPlanValidation"
    /\ ret = NoResult
    /\ ret' = [kind |-> "value",
               value |-> runPlanValidation(args.composedSteps, args.outcomes)]
    /\ UNCHANGED <<fn, args, validationVars, execVars, debateVars>>

PlanValidationSpec == PlanValidationInit /\ [][RunPlanValidation]_vars

(***************************************************************************)
(* Properties                                                              *)
(***************************************************************************)
\* the generation phases started so far
GenerationPhases == Cardinality({k \in 1..Len(phases) : phases[k].phase = "parallel_review"})

\* C1: a review-mode or plan-mode debate runs at most maxRounds generation
\* phases and records at most maxRounds rounds, whatever the confidence
\* values and the threshold are.
C1_RoundLoopBounded ==
    /\ GenerationPhases <= maxRounds
    /\ Len(rounds) <= maxRounds
    /\ currentRound <= maxRounds

\* the loop was left after maxRounds >= 2 rounds without reaching the threshold
C1_Witness ==
    /\ pc = "composing"
    /\ maxRounds >= 2
    /\ Len(rounds) = maxRounds
    /\ GenerationPhases = maxRounds
    /\ confidence < confidenceThreshold

\* C2: one call of runAgent makes at most maxRetries + 1 process
\* invocations, and with maxRetries = 0 it makes one attempt and never
\* sleeps for a retry.
C2_RetryBound ==
    /\ Len(children) <= maxRetries + 1
    /\ Len(sleeps) <= maxRetries
    /\ maxRetries = 0 => (Len(children) <= 1 /\ sleeps = << >>)

\* every allowed attempt was made and timed out
C2_Witness ==
    /\ maxRetries >= 1
    /\ callPc = "rejected"
    /\ callError = "timeout"
    /\ Len(children) = maxRetries + 1
    /\ \A i \in 1..Len(children) : children[i].err = "timeout"

\* the errors the retry policy names fatal: binary not found, permission
\* denied, another spawn error, an exception that is neither a timeout nor a
\* transient OS error
FatalKinds == {"ENOENT", "EACCES", "EAGAIN", "throw"}

C4_KillEscalation ==
    \A i \in 1..Len(children) :
        LET c == children[i] IN
        /\ (c.timeoutAt >= 0 /\ c.aliveAtTimeout) =>
                (Len(c.log) >= 1 /\ c.log[1] = [ev |-> "SIGTERM", at |-> c.timeoutAt])
        /\ \A k \in 1..Len(c.log) :
                c.log[k].ev = "SIGKILL" =>
                    /\ \E j \in 1..(k - 1) :
                            /\ c.log[j].ev = "SIGTERM"
                            /\ c.log[k].at >= c.log[j].at + 5000
                    /\ \A j \in 1..(k - 1) : c.log[j].ev # "exit"

\* a process ignored SIGTERM and was killed after the grace period
C4_Witness ==
    \E i \in 1..Len(children) :
        /\ Len(children[i].log) >= 2
        /\ children[i].log[1].ev = "SIGTERM"
        /\ children[i].log[2].ev = "SIGKILL"

\* C5: if the worker process never exits, every attempt is rejected with a
\* timeout error when its timer fires, although the process has not closed,
\* and the runAgent call eventually rejects with a timeout error after at
\* most maxRetries + 1 attempts.
C5_HangTimesOut ==
    /\ (behaviour = "hang" /\ agentConfigured) ~>
            (callPc = "rejected" /\ callError = "timeout" /\ Len(children) <= maxRetries + 1)
    /\ [](behaviour = "hang" =>
            \A i \in 1..Len(children) :
                children[i].timeoutAt >= 0 =>
                    (children[i].settle = "rejected" /\ children[i].err = "timeout"))

\* the call was rejected with a timeout while the process of the last
\* attempt is still alive and has not closed
C5_Witness ==
    /\ behaviour = "hang"
    /\ maxRetries >= 1
    /\ callPc = "rejected"
    /\ callError = "timeout"
    /\ children[Len(children)].handle
    /\ ~children[Len(children)].closed

\* C6: no critique task starts before every generation task of the round has
\* settled, and a round is scored and recorded only after every critique
\* task of the round has settled.
C6_PhaseBarrier ==
    [][ /\ (critTask = << >> /\ critTask' # << >>) =>
                /\ DOMAIN genTask = agents
                /\ \A a \in DOMAIN genTask : genTask[a] # "running"
        /\ (Len(rounds') > Len(rounds)) =>
                /\ DOMAIN critTask = critiquePairs(agentOutputs)
                /\ critTask # << >>
                /\ \A p \in DOMAIN critTask : critTask[p] # "running"
        /\ (confidence' # confidence) => (Len(rounds') > Len(rounds))
      ]_vars

\* in a later round, some critique tasks have settled and others are running
C6_Witness ==
    /\ pc = "critiquing"
    /\ Len(rounds) >= 1
    /\ \E p \in DOMAIN critTask : critTask[p] # "running"
    /\ \E p \in DOMAIN critTask : critTask[p] = "running"

\* C7: after round r is scored, generation round r+1 starts if and only if
\* confidence < threshold and r < maxRounds; otherwise the run leaves the
\* loop and composes with the results of round r.
C7_LoopDecision ==
    [][ /\ (pc = "critiquing" /\ pc' # "critiquing") =>
                /\ Len(rounds') = Len(rounds) + 1
                /\ rounds'[Len(rounds')].round = currentRound
                /\ rounds'[Len(rounds')].confidence = confidence'
                /\ IF confidence' < confidenceThreshold /\ currentRound < maxRounds
                   THEN /\ pc' = "generating"
                        /\ currentRound' = currentRound + 1
                        /\ genTask' = [a \in agents |-> "running"]
                        /\ composeTask' = "none"
                   ELSE /\ pc' = "composing"
                        /\ currentRound' = currentRound
                        /\ composeTask' = "running"
                        /\ winner' \in DOMAIN rounds'[Len(rounds')].reviews
        /\ (currentRound >= 1 /\ currentRound' # currentRound) =>
                /\ pc = "critiquing"
                /\ confidence' < confidenceThreshold
                /\ currentRound < maxRounds
      ]_vars

\* round 1 stayed below the threshold, round 2 reached it before maxRounds
C7_Witness ==
    /\ pc = "composing"
    /\ Len(rounds) = 2
    /\ rounds[1].confidence < confidenceThreshold
    /\ rounds[2].confidence >= confidenceThreshold

\* a review-mode generation phase has completed with n valid outputs
ReviewGenerationComplete(valid) ==
    /\ mode = "review"
    /\ pc = "generating"
    /\ \A a \in DOMAIN genTask : genTask[a] # "running"
    /\ {a \in DOMAIN genTask : genTask[a] = "valid"} = valid

\* C8: in review mode, when a generation phase (the first or a regeneration)
\* ends with no valid result, the run fails with an error: no critique,
\* scoring, composition or validation follows and no result is returned.
C8_NoValidWorkerFails ==
    [][ /\ ReviewGenerationComplete({}) =>
                /\ pc' = "failed"
                /\ error' # "none"
                /\ result' = NoResult
                /\ critTask' = << >>
                /\ composeTask' = "none"
                /\ valTask' = << >>
                /\ rounds' = rounds
                /\ phases' = phases
        /\ pc = "failed" => UNCHANGED debateVars
      ]_vars

\* a regeneration round ended with no valid worker
C8_Witness ==
    /\ mode = "review"
    /\ pc = "failed"
    /\ error = "All agents failed in round"
    /\ Len(rounds) >= 1

\* C9: in review mode, when exactly one worker is valid in round 1, the run
\* returns the single-agent result without critique, composition or
\* validation: that worker is the winner, its findings are the final
\* findings, the residual risks carry the not-cross-validated entry and the
\* confidence is 50.
C9_SingleAgentDegradation ==
    [][ /\ \A a \in 1..AgentsBound :
            (ReviewGenerationComplete({a}) /\ rounds = << >>) =>
                /\ pc' = "done"
                /\ error' = "none"
                /\ result'.kind = "single"
                /\ result'.winner = a
                /\ result'.finalFindings = [from |-> "review", agent |-> a, round |-> 1]
                /\ result'.finalResidualRisks.agent = a
                /\ result'.finalResidualRisks.note = "not cross-validated"
                /\ result'.confidence = 50
                /\ critTask' = << >>
                /\ composeTask' = "none"
                /\ valTask' = << >>
                /\ phases' = phases
        /\ pc = "done" => UNCHANGED debateVars
      ]_vars

\* of several agents only one was valid in round 1
C9_Witness ==
    /\ mode = "review"
    /\ Cardinality(agents) >= 2
    /\ pc = "done"
    /\ result.kind = "single"
    /\ result.finalFindings.round = 1
    /\ phases[Len(phases)] = Progress("parallel_review", 1)

\* C10: in review mode, when a regeneration leaves exactly one valid worker
\* the run returns the single-agent result at once; critiques are issued,
\* rounds are scored and composition is started only with 2 or more valid
\* workers.
C10_MidRunDegradation ==
    [][ /\ \A a \in 1..AgentsBound :
            (ReviewGenerationComplete({a}) /\ rounds # << >>) =>
                /\ pc' = "done"
                /\ result'.kind = "single"
                /\ result'.winner = a
                /\ critTask' = << >>
                /\ composeTask' = "none"
                /\ valTask' = << >>
                /\ rounds' = rounds
                /\ phases' = phases
        /\ (mode = "review" /\ pc' = "critiquing") =>
                /\ Cardinality(DOMAIN agentOutputs') >= 2
                /\ \A a \in DOMAIN agentOutputs' : agentOutputs'[a] = "valid"
                /\ DOMAIN critTask' = critiquePairs(agentOutputs')
        /\ (mode = "review" /\ Len(rounds') > Len(rounds)) =>
                Cardinality(DOMAIN rounds'[Len(rounds')].reviews) >= 2
        /\ (mode = "review" /\ pc' \in {"composing", "validating"}) =>
                /\ Len(rounds') >= 1
                /\ Cardinality(DOMAIN rounds'[Len(rounds')].reviews) >= 2
                /\ rounds'[Len(rounds')].round = currentRound'
      ]_vars

\* 2 workers valid in round 1, only 1 valid after the regeneration
C10_Witness ==
    /\ mode = "review"
    /\ pc = "done"
    /\ result.kind = "single"
    /\ result.finalFindings.round = 2
    /\ Len(rounds) = 1
    /\ Cardinality(DOMAIN rounds[1].reviews) = 2


\* a plan-mode generation phase has completed with the valid outputs `valid`
PlanGenerationComplete(valid) ==
    /\ mode = "plan"
    /\ pc = "generating"
    /\ \A a \in DOMAIN genTask : genTask[a] # "running"
    /\ {a \in DOMAIN genTask : genTask[a] = "valid"} = valid

\* C11: in plan mode, whenever a generation phase, the first or a later one,
\* ends with fewer than 2 valid plans, the run fails with an error and no
\* critique, scoring or composition follows.
C11_PlanRequiresTwoWorkers ==
    [][ \A valid \in SUBSET (1..AgentsBound) :
            (PlanGenerationComplete(valid) /\ Cardinality(valid) < 2) =>
                /\ pc' = "failed"
                /\ error' # "none"
                /\ critTask' = << >>
                /\ rounds' = rounds
      ]_vars


\* the ordered pairs of distinct members of a set of workers
OrderedPairs(S) == {p \in S \X S : p[1] # p[2]}

\* C12: in review mode a round with N valid workers issues exactly N x (N-1)
\* critique tasks, one per ordered pair of distinct valid workers; a worker
\* whose output failed the validity check is neither reviewer nor target and
\* has no score in the record of that round.
C12_CritiquePairs ==
    [][ /\ \A valid \in SUBSET AgentIds :
            (ReviewGenerationComplete(valid) /\ Cardinality(valid) >= 2
                /\ LoopCondition(confidence, currentRound)) =>
                /\ pc' = "critiquing"
                /\ DOMAIN agentOutputs' = valid
                /\ DOMAIN critTask' = OrderedPairs(valid)
                /\ Cardinality(DOMAIN critTask') = Cardinality(valid) * (Cardinality(valid) - 1)
        /\ (mode = "review" /\ pc = "critiquing") =>
                /\ DOMAIN critTask = OrderedPairs(DOMAIN agentOutputs)
                /\ agentOutputs' = agentOutputs
        /\ (mode = "review" /\ Len(rounds') > Len(rounds)) =>
                LET r == rounds'[Len(rounds')] IN
                /\ DOMAIN r.reviews = DOMAIN agentOutputs
                /\ r.critiques = OrderedPairs(DOMAIN agentOutputs)
                /\ r.scored = DOMAIN agentOutputs
      ]_vars

\* 3 workers, one failed the validity check: the round was recorded with the
\* 2 critiques of the other two
C12_Witness ==
    /\ mode = "review"
    /\ Cardinality(agents) = 3
    /\ Len(rounds) = 1
    /\ Cardinality(DOMAIN rounds[1].reviews) = 2
    /\ Cardinality(rounds[1].critiques) = 2
    /\ rounds[1].scored = DOMAIN rounds[1].reviews

\* C13: a critique task that fails contributes an empty vote list for its
\* pair; whatever subset of the critique tasks fails, the round is scored and
\* recorded and the run does not fail in the critique phase.
C13_FailedCritiqueEmptyVotes ==
    [][ /\ \A p \in DOMAIN critTask :
            critTask[p] = "failed" => (p \in DOMAIN critiques /\ critiques[p] = "empty")
        /\ \A p \in DOMAIN critTask' :
            (critTask'[p] = "failed" /\ critTask[p] = "running") =>
                /\ critiques'[p] = "empty"
                /\ pc' = "critiquing"
                /\ error' = "none"
        /\ (pc = "critiquing" /\ \A p \in DOMAIN critTask : critTask[p] # "running") =>
                /\ Len(rounds') = Len(rounds) + 1
                /\ rounds'[Len(rounds')].critiques = DOMAIN critTask
                /\ rounds'[Len(rounds')].round = currentRound
                /\ pc' \in {"generating", "composing"}
                /\ error' = "none"
      ]_vars

\* every critique task of a round of 3 workers has failed
C13_Witness ==
    /\ pc = "critiquing"
    /\ Cardinality(DOMAIN critTask) = 6
    /\ \A p \in DOMAIN critTask : critTask[p] = "failed" /\ critiques[p] = "empty"


\* C14: the worker invoked as composer is a participant of the last recorded
\* round and no participant of that round has a strictly higher total score.
C14_WinnerHasMaxScore ==
    (composeTask # "none") =>
        /\ rounds # << >>
        /\ winner \in DOMAIN rounds[Len(rounds)].reviews
        /\ DOMAIN finalScores = rounds[Len(rounds)].scored
        /\ DOMAIN finalScores = DOMAIN rounds[Len(rounds)].reviews
        /\ \A b \in DOMAIN finalScores : finalScores[b] <= finalScores[winner]

\* after two rounds the second worker composes, with a higher total than the first
C14_Witness ==
    /\ pc = "composing"
    /\ composeTask = "running"
    /\ Len(rounds) = 2
    /\ winner = 2
    /\ finalScores[2] > finalScores[1]


\* the approve / reject votes the validators' tasks fulfilled with for the
\* proposed finding i
VotesCast(i, w) ==
    {<<v, j>> \in validatorAgents \X (1..(FindingsBound + VotesBound + 1)) :
        /\ v \in DOMAIN voteResults
        /\ j <= Len(voteResults[v])
        /\ voteResults[v][j].findingId = i
        /\ voteResults[v][j].vote = w}

Occurrences(q, x) == Cardinality({j \in 1..Len(q) : q[j] = x})

\* C15: in review-mode validation, a proposed finding with a approve votes
\* and r reject votes is in approvedFindings if and only if a >= r and in
\* rejectedFindings if and only if a < r; approvedFindings and
\* rejectedFindings partition the proposed list, every finding of
\* tieFindings is also in approvedFindings, and the final finding list of
\* the result is approvedFindings.
C15_TallyDecides ==
    vpc = "done" =>
        LET val == validationResult.validation IN
        /\ \A i \in 0..(composedFindings - 1) :
             LET a == Cardinality(VotesCast(i, "approve"))
                 r == Cardinality(VotesCast(i, "reject"))
             IN /\ (Occurrences(val.approvedFindings, i) > 0) <=> (a >= r)
                /\ (Occurrences(val.rejectedFindings, i) > 0) <=> (a < r)
                /\ Occurrences(val.approvedFindings, i)
                     + Occurrences(val.rejectedFindings, i) = 1
                /\ Occurrences(val.tieFindings, i) > 0
                     => Occurrences(val.approvedFindings, i) > 0
        /\ Len(val.approvedFindings) + Len(val.rejectedFindings) = composedFindings
        /\ validationResult.finalFindings = val.approvedFindings

\* a validation that approved one finding on a tie and rejected another
C15_Witness ==
    /\ vpc = "done"
    /\ validationResult.validation.tieFindings # << >>
    /\ validationResult.validation.rejectedFindings # << >>
    /\ Len(validationResult.finalFindings) = 1


\* C16: a validator whose worker execution fails (runAgent throws) is
\* recorded as voting approve on every proposed item with the
\* default-approval reason of a validator error, and the validation still
\* returns its result.
C16_ValidatorErrorApproves ==
    /\ \A v \in DOMAIN voteResults :
         validatorOutput[v].kind = "throws" =>
            /\ Len(voteResults[v]) = composedFindings
            /\ \A i \in 0..(composedFindings - 1) :
                 \E j \in 1..Len(voteResults[v]) :
                    voteResults[v][j] = [findingId |-> i, agent |-> v, vote |-> "approve",
                                         reason |-> ValidatorErrorReason]
            /\ vpc = "done" =>
                 \A j \in 1..Len(voteResults[v]) :
                    \E k \in 1..Len(validationResult.validation.votes) :
                       validationResult.validation.votes[k] = voteResults[v][j]
    /\ (vpc = "voting" /\ DOMAIN voteResults = validatorAgents) => ENABLED TallyVotes
    /\ vpc = "done" => validationResult.kind = "result"

\* a finished validation of two findings in which a validator's execution failed
C16_Witness ==
    /\ vpc = "done"
    /\ composedFindings = 2
    /\ \E v \in validatorAgents : validatorOutput[v].kind = "throws"
    /\ validationResult.kind = "result"


\* C17: a validator whose output cannot be parsed as vote JSON (no JSON
\* object in it, or malformed JSON) votes approve on every proposed item.
C17_UnparseableApproves ==
    \A v \in DOMAIN voteResults :
        validatorOutput[v].kind \in {"nojson", "malformed"} =>
            \A i \in 0..(composedFindings - 1) :
                \E j \in 1..Len(voteResults[v]) :
                    /\ voteResults[v][j].findingId = i
                    /\ voteResults[v][j].vote = "approve"


\* C18: every validator contributes one vote per proposed item: the number
\* of votes tallied for an item (approves + rejects) never exceeds the number
\* of validators, and no validator is counted more than once on an item.
C18_OneVotePerValidator ==
    vpc = "done" =>
        LET votes == validationResult.validation.votes
            tally == findingVotes(votes, composedFindings)
        IN \A i \in 0..(composedFindings - 1) :
              /\ tally[i].approves + tally[i].rejects <= Cardinality(validatorAgents)
              /\ \A v \in validatorAgents :
                    Cardinality({j \in 1..Len(votes) :
                        votes[j].agent = v /\ votes[j].findingId = i}) <= 1


\* C19: in review mode, for two or more worker results and any critique
\* votes, the confidence calculateConfidence returns is within 0..100, and
\* it is 100 when every worker produced zero findings.
C19_ConfidenceBounds ==
    (fn = "calculateConfidence" /\ ret.kind = "value") =>
        /\ ret.value.score >= 0
        /\ ret.value.score <= 100
        /\ (\A j \in 1..Len(args.agentOutputs) : args.agentOutputs[j].findings = << >>)
              => ret.value.score = 100

\* a confidence computed for three workers without findings
C19_Witness ==
    /\ fn = "calculateConfidence" /\ ret.kind = "value"
    /\ Len(args.agentOutputs) = 3
    /\ \A j \in 1..Len(args.agentOutputs) : args.agentOutputs[j].findings = << >>
    /\ \E p \in DOMAIN args.critiques : args.critiques[p] # << >>
    /\ ret.value.score = 100


\* C20: in plan mode, for every set of worker plans and every set of
\* critique step votes (several workers proposing a step of the same
\* signature and several agree votes matching one step included), the
\* confidence of a round, the averaged per-step consensus, is within 0..100.
C20_PlanConsensusBounds ==
    (fn = "calculatePlanConsensus" /\ ret.kind = "value") =>
        /\ ret.value >= 0
        /\ ret.value <= 100


\* the review of worker j of the call holds exactly the finding f
ReviewIs(j, f) == args.agentOutputs[j].findings = <<f>>

\* C21: when two workers each return exactly one P0 finding with the same
\* title and file, de-duplication yields exactly one unique finding, that
\* finding has majority agreement, and the confidence is 100.
C21_IdenticalFindings ==
    (fn = "calculateConfidence" /\ ret.kind = "value" /\ Len(args.agentOutputs) = 2) =>
        \A f \in FindingUniverse, g \in FindingUniverse :
            (/\ ReviewIs(1, f) /\ ReviewIs(2, g)
             /\ f.severity = "P0" /\ g.severity = "P0"
             /\ f.title = g.title /\ f.file = g.file)
            => /\ ret.value.totalFindings = 1
               /\ ret.value.agreedFindings = 1
               /\ ret.value.score = 100

\* a confidence computed for two workers with the same single P0 finding
\* and a disagreeing critique vote
C21_Witness ==
    /\ fn = "calculateConfidence" /\ ret.kind = "value"
    /\ Len(args.agentOutputs) = 2
    /\ \E f \in FindingUniverse :
          /\ f.severity = "P0" /\ f.file = "a.ts"
          /\ ReviewIs(1, f) /\ ReviewIs(2, f)
    /\ \E p \in DOMAIN args.critiques :
          \E j \in 1..Len(args.critiques[p]) : args.critiques[p][j].vote = "disagree"
    /\ ret.value.score = 100


\* the two workers of the call both have findings and no finding of one
\* matches a finding of the other
DisjointReviews ==
    /\ Len(args.agentOutputs) = 2
    /\ args.agentOutputs[1].findings # << >>
    /\ args.agentOutputs[2].findings # << >>
    /\ \A f \in Range(args.agentOutputs[1].findings), g \in Range(args.agentOutputs[2].findings) :
          ~findingsMatch(f, g) /\ ~findingsMatch(g, f)

NoCritiqueVotes == \A p \in DOMAIN args.critiques : args.critiques[p] = << >>

\* C22: when two workers return disjoint findings and there are no critique
\* votes, no unique finding has majority agreement, the agreement-ratio
\* confidence is 0, and the pairwise agreement between the two workers is 0.
C22_DisjointFindings ==
    (fn = "calculateConfidence" /\ ret.kind = "value" /\ DisjointReviews /\ NoCritiqueVotes) =>
        /\ ret.value.agreedFindings = 0
        /\ ret.locals.agreementConfidence = 0
        /\ ret.value.agreementMatrix[1][2] = 0
        /\ ret.value.agreementMatrix[2][1] = 0


\* ceil(n / 2): the least m with 2 * m >= n
CeilHalf(n) == CHOOSE m \in 0..n : 2 * m >= n /\ \A l \in 0..(m - 1) : 2 * l < n

\* C23: for N workers a unique finding has majority agreement if and only if
\* at least ceil(N/2) workers agree with it; the agreement-ratio confidence
\* is 100 x (findings with majority agreement) / (unique findings), as the
\* nearest integer, and 100 when there are no unique findings.
C23_MajorityAndRatio ==
    (fn = "calculateConfidence" /\ ret.kind = "value") =>
        LET n == Len(args.agentOutputs)
            total == Len(ret.locals.allFindings)
            agreed == Cardinality({j \in 1..total :
                          Len(ret.locals.agreements[j].agrees) >= CeilHalf(n)})
            ratio == ret.locals.agreementConfidence
        IN /\ ret.value.totalFindings = total
           /\ ret.value.agreedFindings = agreed
           /\ total = 0 => ratio = 100
           /\ total > 0 => /\ 2 * (ratio * total - 100 * agreed) <= total
                           /\ 2 * (100 * agreed - ratio * total) <= total

\* three workers with three unique findings, one of which has majority
\* agreement through a critique vote
C23_Witness ==
    /\ fn = "calculateConfidence" /\ ret.kind = "value"
    /\ Len(args.agentOutputs) = 3
    /\ ret.value.totalFindings = 3
    /\ ret.value.agreedFindings = 1
    /\ ret.locals.agreementConfidence = 33


\* worker a reported a finding matching f itself
ProducedMatching(a, f) ==
    \E j \in 1..Len(args.agentOutputs) :
        /\ args.agentOutputs[j].agent = a
        /\ \E g \in Range(args.agentOutputs[j].findings) : findingsMatch(g, f)

\* worker a cast a critique vote w on the finding f
VotedOn(a, f, w) ==
    \E p \in DOMAIN args.critiques :
        /\ p[1] = a
        /\ \E j \in 1..Len(args.critiques[p]) :
              /\ args.critiques[p][j].vote = w
              /\ \/ TitleIncludes(args.critiques[p][j].findingTitle, f.title)
                 \/ TitleIncludes(f.title, args.critiques[p][j].findingTitle)

\* C24: for every unique finding each participating worker is in exactly one
\* of the lists agrees, disagrees, abstains; it is in agrees if and only if
\* it produced a matching finding itself or, when it did not, cast an agree
\* vote and no disagree vote on the finding.
C24_AgreementLists ==
    (fn = "calculateConfidence" /\ ret.kind = "value") =>
        \A j \in 1..Len(ret.locals.allFindings) :
            LET f == ret.locals.allFindings[j].finding
                lists == ret.locals.agreements[j]
            IN \A k \in 1..Len(args.agentOutputs) :
                  LET a == args.agentOutputs[k].agent IN
                  /\ Occurrences(lists.agrees, a) + Occurrences(lists.disagrees, a)
                        + Occurrences(lists.abstains, a) = 1
                  /\ (Occurrences(lists.agrees, a) = 1)
                        <=> \/ ProducedMatching(a, f)
                            \/ VotedOn(a, f, "agree") /\ ~VotedOn(a, f, "disagree")

\* a worker that voted both agree and disagree on a finding it did not
\* report abstains, while another one agrees by its vote alone
C24_Witness ==
    /\ fn = "calculateConfidence" /\ ret.kind = "value"
    /\ \E j \in 1..Len(ret.locals.allFindings) :
          LET f == ret.locals.allFindings[j].finding
              lists == ret.locals.agreements[j]
          IN \E a \in Range(lists.abstains), b \in Range(lists.agrees) :
                /\ VotedOn(a, f, "agree") /\ VotedOn(a, f, "disagree")
                /\ ~ProducedMatching(b, f) /\ VotedOn(b, f, "agree")


\* the number of pairs of workers of the returned matrix
PairwiseCount ==
    LET n == Len(ret.value.agreementMatrix) IN (n * (n - 1)) \div 2

\* the sum of the entries agreement(A,B) over all ordered pairs A # B
OrderedPairwiseSum ==
    LET n == Len(ret.value.agreementMatrix)
        pairs == {p \in (1..n) \X (1..n) : p[1] # p[2]}
    IN SumOver([p \in pairs |-> ret.value.agreementMatrix[p[1]][p[2]]], pairs)

ConvergedAsClaimed == ret.value.converged <=> (ret.value.score >= args.threshold)

\* C25: the review-mode final confidence is round(0.6 x agreement-ratio +
\* 0.4 x mean-pairwise-agreement), the mean taken over all pairs of distinct
\* workers A, B of the agreement matrix, and converged is true exactly when
\* confidence >= threshold.
C25_WeightedConfidence ==
    (fn = "calculateConfidence" /\ ret.kind = "value") =>
        /\ ret.value.score
             = Round(6 * ret.locals.agreementConfidence * 2 * PairwiseCount
                        + 4 * OrderedPairwiseSum,
                     10 * 2 * PairwiseCount)
        /\ ConvergedAsClaimed


\* the findings of worker a of the call that match some finding of worker b
MatchedIn(a, b) ==
    {j \in 1..Len(args.agentOutputs[a].findings) :
        \E g \in Range(args.agentOutputs[b].findings) :
            findingsMatch(args.agentOutputs[a].findings[j], g)}

\* the unique items among the findings of the workers a and b
UniqueItems(a, b) ==
    {createFindingSignature(f) :
        f \in Range(args.agentOutputs[a].findings) \cup Range(args.agentOutputs[b].findings)}

\* C26: in every agreement matrix the entry of a worker with itself is 100
\* and every entry is within 0..100; for distinct workers A and B with at
\* least one finding between them, agreement(A,B) is the smaller of 100 and
\* 100 x 2 x (findings of A matching some finding of B) / (unique items among
\* the findings of A and B), as the nearest integer.
C26_AgreementMatrix ==
    (fn = "calculateConfidence" /\ ret.kind = "value") =>
        LET m == ret.value.agreementMatrix
            n == Len(args.agentOutputs)
        IN \A a \in 1..n, b \in 1..n :
              /\ m[a][b] >= 0 /\ m[a][b] <= 100
              /\ a = b => m[a][b] = 100
              /\ (a # b /\ UniqueItems(a, b) # {}) =>
                    LET q == 200 * Cardinality(MatchedIn(a, b))
                        u == Cardinality(UniqueItems(a, b))
                    IN \/ m[a][b] = 100 /\ 2 * q >= 199 * u
                       \/ /\ m[a][b] < 100
                          /\ 2 * (m[a][b] * u - q) <= u
                          /\ 2 * (q - m[a][b] * u) <= u

\* a matrix that is not symmetric: one entry capped at 100, the opposite
\* entry below it
C26_Witness ==
    /\ fn = "calculateConfidence" /\ ret.kind = "value"
    /\ Len(args.agentOutputs) = 2
    /\ ret.value.agreementMatrix[1][2] = 67
    /\ ret.value.agreementMatrix[2][1] = 100
    /\ Cardinality(MatchedIn(2, 1)) = 2


\* C27: the matchers are symmetric: findingsMatch(a,b) = findingsMatch(b,a)
\* for all findings and stepsMatch(a,b) = stepsMatch(b,a) for all plan steps;
\* findings of different severity and steps of different phase never match.
C27_MatchersSymmetric ==
    (fn \in {"findingsMatch", "stepsMatch"} /\ ret.kind = "value") =>
        /\ ret.ab = ret.ba
        /\ (fn = "findingsMatch" /\ args.a.severity # args.b.severity) => ~ret.ab
        /\ (fn = "stepsMatch" /\ args.a.phase # args.b.phase) => ~ret.ab

\* two findings of different titles and line numbers that match, in both
\* orders, through their common file
C27_Witness ==
    /\ fn = "findingsMatch" /\ ret.kind = "value"
    /\ ret.ab /\ ret.ba
    /\ args.a.file = "a.ts:10" /\ args.b.file = "a.ts:20"
    /\ titleWords(args.a.title) = {"null"}
    /\ titleWords(args.b.title) = {"null", "deref"}


\* C28: for every review and every list of diff files the review
\* ScoreBreakdown has total = p0 + p1 + p2 + false_positives + concrete_fixes
\* + file_accuracy + clarity, with p0 in 0..45, p1 in 0..32, p2 in 0..12,
\* false_positives in -30..0, concrete_fixes in 0..25, file_accuracy in 0..10
\* and clarity in 0..10, so that total is in -30..134.
C28_ReviewScoreBounds ==
    (fn = "scoreReviewOutput" /\ ret.kind = "value") =>
        LET s == ret.value IN
        /\ s.total = s.p0_findings + s.p1_findings + s.p2_findings + s.false_positives
                     + s.concrete_fixes + s.file_accuracy + s.clarity
        /\ s.p0_findings \in 0..45
        /\ s.p1_findings \in 0..32
        /\ s.p2_findings \in 0..12
        /\ s.false_positives \in (-30)..0
        /\ s.concrete_fixes \in 0..25
        /\ s.file_accuracy \in 0..10
        /\ s.clarity \in 0..10
        /\ s.total \in (-30)..134

\* a review with more P0 findings than the cap pays for: p0, the fixes and
\* the file accuracy are all at their caps
C28_Witness ==
    /\ fn = "scoreReviewOutput" /\ ret.kind = "value"
    /\ Cardinality({j \in 1..Len(args.review.findings) :
                       args.review.findings[j].severity = "P0"}) > 3
    /\ ret.value.p0_findings = 45
    /\ ret.value.concrete_fixes = 25
    /\ ret.value.file_accuracy = 10
    /\ ret.value.clarity = 10


\* C29: every plan score stored in a round record has total = clarity +
\* completeness + feasibility + consensus with clarity in 0..30,
\* completeness in 0..30, feasibility in 0..20 and consensus in 0..20, so
\* that total is in 0..100, for any plans and any critique votes.
C29_PlanScoreBounds ==
    (fn = "scorePlanRound" /\ ret.kind = "value") =>
        \A a \in DOMAIN ret.value :
            LET s == ret.value[a] IN
            /\ s.total = s.clarity + s.completeness + s.feasibility + s.consensus
            /\ s.clarity \in 0..30
            /\ s.completeness \in 0..30
            /\ s.feasibility \in 0..20
            /\ s.consensus \in 0..20
            /\ s.total \in 0..100

\* the part of C29 that does not depend on the consensus score
C29_BaseScoreBounds ==
    (fn = "scorePlanRound" /\ ret.kind = "value") =>
        \A a \in DOMAIN ret.value :
            LET s == ret.value[a] IN
            /\ s.total = s.clarity + s.completeness + s.feasibility + s.consensus
            /\ s.clarity \in 0..30
            /\ s.completeness \in 0..30
            /\ s.feasibility \in 0..20
            /\ (ret.consensusScore <= 100 => s.consensus \in 0..20 /\ s.total \in 0..100)


\* C30: parsing is total: for every raw worker text (empty, prose without
\* JSON, malformed JSON, JSON with missing or wrongly typed fields)
\* parseReviewOutput and parsePlanOutput return a structured result and do not
\* throw; malformed JSON gives the result of the legacy-text fallback for a
\* review and the empty default for a plan.
C30_ParsingTotal ==
    (fn \in {"parseReviewOutput", "parsePlanOutput"} /\ ret # NoResult) =>
        /\ ret.kind = "value"
        /\ fn = "parseReviewOutput" =>
             /\ DOMAIN ret.value = {"findings", "residual_risks", "open_questions"}
             /\ \A j \in DOMAIN ret.value.findings :
                   DOMAIN ret.value.findings[j] = {"severity", "title", "file", "detail", "fix"}
             /\ args.rawOutput.json.t \in {"none", "malformed"} =>
                   ret.value = parseLegacyOutput(args.rawOutput)
        /\ fn = "parsePlanOutput" =>
             /\ DOMAIN ret.value = {"steps", "summary", "risks", "open_questions"}
             /\ args.rawOutput.json.t \in {"none", "malformed"} =>
                   ret.value = defaultPlanOutput

\* a review whose JSON holds a finding with a number as severity, next to a
\* legacy line: normalizeFinding throws and the legacy fallback answers
C30_Witness ==
    /\ fn = "parseReviewOutput" /\ ret # NoResult
    /\ args.rawOutput.json.t = "obj"
    /\ args.rawOutput.json.findings.t = "arr"
    /\ \E j \in DOMAIN args.rawOutput.json.findings.items :
          args.rawOutput.json.findings.items[j].severity.t = "num"
    /\ ret.kind = "value"
    /\ Len(ret.value.findings) = 1
    /\ ret.value.findings[1].severity = "P1"


\* C31: every finding the review parser produces has a severity in
\* {P0, P1, P2}, a missing or unrecognized severity of the worker's JSON
\* becoming P2, and every step the plan parser produces has the phase of the
\* worker's JSON when that is a number and 1 otherwise.
C31_SeverityAndPhaseDefaults ==
    /\ (fn = "parseReviewOutput" /\ ret # NoResult) =>
          \A j \in DOMAIN ret.value.findings :
              ret.value.findings[j].severity \in {"P0", "P1", "P2"}
    /\ (fn = "parsePlanOutput" /\ ret # NoResult) =>
          \A j \in DOMAIN ret.value.steps :
              LET raw == args.rawOutput.json.steps.items[j]
              IN ret.value.steps[j].phase = IF raw.phase.t = "num" THEN raw.phase.v ELSE "1"


\* the result has an item, a residual risk, an open question or raw text of
\* the minimum length
HasContent(review) ==
    \/ review.findings > 0
    \/ review.residual_risks > 0
    \/ review.open_questions > 0
    \/ review.raw_output >= 50

\* C32 as stated: a worker's round result is valid if and only if it has at
\* least one item, a residual risk, an open question or raw text of at least
\* 50 characters, and a worker whose execution threw is never valid.
C32_ValidIffContent ==
    (fn = "isValidAgentOutput" /\ ret # NoResult) =>
        /\ ret.value <=> HasContent(ret.output.review)
        /\ args.outcome.kind = "throws" => ~ret.value

\* C32 amended: a worker's round result is valid if and only if its text does
\* not start with "Error:" and it has at least one item, a residual risk, an
\* open question or raw text of at least 50 characters; a result with none of
\* these is a failure whatever the exit code, and a worker whose execution
\* threw is never valid.
C32_ValidIffContentAndNoErrorPrefix ==
    (fn = "isValidAgentOutput" /\ ret # NoResult) =>
        /\ ret.value <=> (~ret.output.outputStartsWithError /\ HasContent(ret.output.review))
        /\ args.outcome.kind = "throws" => ~ret.value

\* a worker returned 80 characters of text without any item: it is valid by
\* the length of the text alone
C32_Witness ==
    /\ fn = "isValidAgentOutput" /\ ret # NoResult
    /\ args.outcome.kind = "returns"
    /\ ~args.outcome.errorPrefix
    /\ args.outcome.findings = 0 /\ args.outcome.residual_risks = 0
    /\ args.outcome.open_questions = 0
    /\ args.outcome.rawLength = 80
    /\ ret.value


Abs(x) == IF x < 0 THEN -x ELSE x

\* C33: the delay slept before retry a+1 never exceeds maxDelayMs, and when
\* 1.2 * baseDelayMs * 2^a <= maxDelayMs it is within 20% of
\* baseDelayMs * 2^a; no delay is slept after the last allowed attempt.
C33_BackoffDelays ==
    (fn = "runAgent" /\ ret # NoResult) =>
        LET config == args.retryConfig IN
        /\ \A k \in DOMAIN ret.sleeps :
              LET nominal == config.baseDelayMs * Pow2(k - 1) IN
              /\ ret.sleeps[k] <= config.maxDelayMs
              /\ 12 * nominal <= 10 * config.maxDelayMs =>
                    5 * Abs(ret.sleeps[k] - nominal) <= nominal
        /\ Len(ret.sleeps) <= config.maxRetries
        /\ ret.kind = "thrown" => Len(ret.sleeps) = config.maxRetries

\* every attempt of a call with four retries failed: the first delay carries
\* jitter, the fourth is cut to maxDelayMs
C33_Witness ==
    /\ fn = "runAgent" /\ ret # NoResult
    /\ ret.kind = "thrown"
    /\ args.retryConfig.baseDelayMs = BaseDelayMs
    /\ Len(ret.sleeps) = 4
    /\ ret.sleeps[1] < BaseDelayMs
    /\ ret.sleeps[4] = MaxDelayMs


\* the list names an agent id absent from the configuration, or has fewer
\* than two agents
BadAgentList(list) ==
    \/ \E j \in 1..Len(list) : list[j] \notin ConfiguredAgents
    \/ Len(list) < 2

\* C34: a debate_360 request that names an agent id absent from the
\* configuration, or lists fewer than 2 agents, fails with an error before
\* any worker is spawned, and runPlanDebate360 likewise fails on an unknown
\* agent id or fewer than 2 agents before any worker is run.
C34_ConfigErrorBeforeExecution ==
    /\ (fn = "handleDebate360" /\ ret # NoResult
        /\ args.agents # AbsentAgents /\ BadAgentList(args.agents)) =>
           (ret.kind = "error" /\ ret.ran = {} /\ ret.spawned = {})
    /\ (fn = "runPlanDebate360" /\ ret # NoResult
        /\ BadAgentList(effectiveAgents(args.agents))) =>
           (ret.kind = "error" /\ ret.ran = {} /\ ret.spawned = {})

\* the handler's half of C34, and runPlanDebate360 for fewer than 2 agents
\* and for names that are not properties of config.agents at all
C34_HandlerAndPlainNames ==
    /\ (fn = "handleDebate360" /\ ret # NoResult
        /\ args.agents # AbsentAgents /\ BadAgentList(args.agents)) =>
           (ret.kind = "error" /\ ret.ran = {} /\ ret.spawned = {})
    /\ (fn = "runPlanDebate360" /\ ret # NoResult
        /\ \/ \E j \in 1..Len(effectiveAgents(args.agents)) :
                 ~agentLookup(effectiveAgents(args.agents)[j])
           \/ Len(effectiveAgents(args.agents)) < 2) =>
           (ret.kind = "error" /\ ret.ran = {} /\ ret.spawned = {})


\* record rec is one of the records of the list
InList(rec, list) == \E j \in 1..Len(list) : list[j] = rec

\* C35: the round history is append-only: the records are numbered 1, 2, 3,
\* ... in the order they were recorded, a record once appended is never
\* changed or removed, and the result a review run returns, normal or
\* degraded after a mid-run drop, contains every round record appended
\* during the run.
C35_RoundHistoryAppendOnly ==
    [][ /\ \A k \in 1..Len(rounds') : rounds'[k].round = k
        /\ Len(rounds') >= Len(rounds)
        /\ \A k \in 1..Len(rounds) : rounds'[k] = rounds[k]
        /\ (mode = "review" /\ result' # NoResult) =>
              \A k \in 1..Len(rounds') : InList(rounds'[k], result'.rounds)
      ]_vars

\* C35 without the degraded result: numbering, append-only, and the normal
\* result holds the whole history
C35_HistoryKept ==
    [][ /\ \A k \in 1..Len(rounds') : rounds'[k].round = k
        /\ Len(rounds') >= Len(rounds)
        /\ \A k \in 1..Len(rounds) : rounds'[k] = rounds[k]
        /\ (mode = "review" /\ result' # NoResult /\ result'.kind = "debate") =>
              result'.rounds = rounds'
      ]_vars


\* C36: in plan mode every worker that produced a matching step counts as
\* agreeing with it, so when all N >= 2 workers produce identical step lists
\* the consensus, which is the round's confidence, is 100 even if no critique
\* vote is cast.
C36_IdenticalPlansFullConsensus ==
    (fn = "calculatePlanConsensus" /\ ret # NoResult) =>
        LET planOutputs == args.planOutputs IN
        (/\ Len(planOutputs) >= 2
         /\ \A a \in 1..Len(planOutputs) : planOutputs[a].steps = planOutputs[1].steps
         /\ \A p \in DOMAIN args.critiques : args.critiques[p] = << >>)
        => ret.value = 100


\* the votes with value val the validators cast for the step at position i
StepVotesCast(i, val) ==
    Cardinality({j \in 1..Len(ret.value.votes) :
                    ret.value.votes[j].step = i /\ ret.value.votes[j].vote = val})

\* the tallies and the lists are those of the votes cast for each step
TallyMatchesVotesCast ==
    LET n == Len(args.composedSteps)
        val == ret.value
    IN /\ \A i \in 1..n :
            /\ val.stepVotes[i].approves = StepVotesCast(i, "approve")
            /\ val.stepVotes[i].rejects = StepVotesCast(i, "reject")
            /\ InList(i, val.rejectedSteps)
                 <=> StepVotesCast(i, "reject") > StepVotesCast(i, "approve")
            /\ InList(i, val.approvedSteps) <=> ~InList(i, val.rejectedSteps)
       /\ Len(val.approvedSteps) + Len(val.rejectedSteps) = n

\* C37: in plan validation, for every composed step list, lists with two
\* steps of the same title included, each step's tally counts exactly the
\* votes cast for that step, the step is in rejectedSteps if and only if its
\* reject votes exceed its approve votes and otherwise in approvedSteps, and
\* the two lists partition the composed steps.
C37_PlanTallyPerStep ==
    (fn = "runPlanValidation" /\ ret # NoResult) => TallyMatchesVotesCast

\* C37 for composed plans whose titles are all different
C37_DistinctTitles ==
    (/\ fn = "runPlanValidation" /\ ret # NoResult
     /\ \A i, j \in 1..Len(args.composedSteps) :
           args.composedSteps[i] = args.composedSteps[j] => i = j)
    => TallyMatchesVotesCast


\* C38: the de-duplicated union built by collectAllFindings contains no two
\* findings that match each other, and every finding of every worker matches
\* at least one finding of the union, for every order of workers and
\* findings.
C38_UnionDeduplicated ==
    (fn = "calculateConfidence" /\ ret # NoResult) =>
        LET all == ret.locals.allFindings
            outputs == args.agentOutputs
        IN /\ \A i, j \in 1..Len(all) :
                i # j => ~findingsMatch(all[i].finding, all[j].finding)
           /\ \A a \in 1..Len(outputs) : \A j \in 1..Len(outputs[a].findings) :
                \E i \in 1..Len(all) : findingsMatch(outputs[a].findings[j], all[i].finding)

\* two workers: a finding that is no copy of a finding of the union was
\* dropped as a match of one, and the union keeps two findings
C38_Witness ==
    /\ fn = "calculateConfidence" /\ ret # NoResult
    /\ Len(ret.locals.allFindings) = 2
    /\ \E a \in 1..Len(args.agentOutputs) : \E j \in 1..Len(args.agentOutputs[a].findings) :
          \A i \in 1..Len(ret.locals.allFindings) :
              ret.locals.allFindings[i].finding # args.agentOutputs[a].findings[j]


\* C39: each single attempt (runAgentOnce) settles exactly once: whichever of
\* the 'close' event, the 'error' event and the timeout timer comes first
\* decides the outcome, and a later event neither changes the outcome nor
\* settles again; a 'close' after the timeout leaves the timeout error.
C39_AttemptSettlesOnce ==
    [][\A i \in 1..Len(children) :
          /\ children[i].settle # "pending" =>
                /\ children'[i].settle = children[i].settle
                /\ children'[i].err = children[i].err
                /\ children'[i].exit_code = children[i].exit_code
          /\ children[i].isResolved => children'[i].isResolved
          /\ (children[i].settle = "pending" /\ children'[i].settle # "pending") =>
                /\ ~children[i].isResolved /\ children'[i].isResolved
                /\ \/ /\ children'[i].settle = "resolved"      \* 'close' came first
                      /\ children'[i].closed /\ children'[i].err = "none"
                      /\ children'[i].timeoutAt = -1
                   \/ /\ children'[i].settle = "rejected"      \* 'error' came first
                      /\ children'[i].err = children[i].errPending
                      /\ children'[i].err \in ErrnoCodes
                      /\ ~children'[i].closed /\ children'[i].timeoutAt = -1
                   \/ /\ children'[i].settle = "rejected"      \* the timer came first
                      /\ children'[i].err = "timeout"
                      /\ ~children'[i].closed /\ children'[i].timeoutAt = now]_vars

\* 'close' arrived after the timeout had rejected the attempt
C39_Witness ==
    \E i \in 1..Len(children) :
        /\ children[i].closed
        /\ children[i].settle = "rejected"
        /\ children[i].err = "timeout"
        /\ children[i].exit_code = NullCode


\* the worker processes of the runAgent call that have not exited
AliveChildren == {i \in 1..Len(children) : children[i].handle}

\* C40: within one runAgent call at most one worker process spawned by the
\* call is alive at any time: a retry attempt is spawned only after the
\* process of the previous (timed-out) attempt has exited or been killed.
C40_OneProcessAlive == Cardinality(AliveChildren) <= 1

\* what the code does keep: a retry attempt is spawned only after the previous
\* attempt has settled, and a process that outlives its attempt is one the
\* timeout handler has sent SIGTERM to
C40_RetryAfterSettlement ==
    \A i \in 1..Len(children) :
        i < Len(children) =>
            /\ children[i].settle = "rejected"
            /\ children[i].handle =>
                  /\ children[i].err = "timeout"
                  /\ \E k \in 1..Len(children[i].log) : children[i].log[k].ev = "SIGTERM"

====
